---------------------------- MODULE Spec2Model ----------------------------
(***************************************************************************)
(* A model of the sailce data model: Entry and its orderings, Path         *)
(* prefixes, AuthorisedEntry, and the Store wrapper over the in-memory     *)
(* StoreExt backend (InMem), which keeps for every (subspace, path) a      *)
(* BinaryHeap of every StoredEntry ever put there and derives prefix       *)
(* pruning when it is read.                                                *)
(*                                                                         *)
(* Identifiers are small integers ordered as the Rust values are ordered:  *)
(* a namespace name, a user (subspace id), a path component (a one-byte    *)
(* string) and a payload digest are numbers; a path is a sequence of       *)
(* components; a payload is its sequence of bytes.  An Option is a set of  *)
(* at most one element: None is {}, Some(x) is {x}.                        *)
(***************************************************************************)
EXTENDS Integers, Sequences, FiniteSets, TLC

\* ------------------------------------------------------------------ bounds
\* How many StoredEntrys the backends of all stores may hold together.
MaxStored == 3

\* ------------------------------------------------------- program constants
MAX_COMPONENT_COUNT == 128
MAX_COMPONENT_LENGTH == 512
MAX_PATH_LENGTH == 8192

\* ------------------------------------------------------------ input sets
Namespaces == {1, 2}
Subspaces == {1, 2}
Paths == {<<1>>, <<1, 1>>}
\* Payload contents: a one-byte payload.
Payloads == {<<7>>}
\* (timestamp, payload_digest, payload_length) of the entries that are put.
\* Digest 2 is the digest of <<7>>; no payload at hand has digest 1.
NewnessTuples == {<<1, 1, 0>>, <<2, 1, 0>>, <<2, 2, 0>>, <<2, 2, 1>>}

Stores == {"A", "B", "C"}

\* store: the stores.  call: a call of one of the pure functions of the
\* library, with its arguments and, once it has returned, its result.
VARIABLES store, call

vars == <<store, call>>

\* ------------------------------------------------------------- orderings
\* core::cmp::Ordering
Less == "Less"
Equal == "Equal"
Greater == "Greater"

\* Ord::cmp of two integers (u64, Timestamp, identifiers).
CmpInt(a, b) == IF a < b THEN Less ELSE IF a > b THEN Greater ELSE Equal

Min(a, b) == IF a <= b THEN a ELSE b

Max(a, b) == IF b >= a THEN b ELSE a

\* Path::is_prefix_of: self_len <= other_len and the first self_len
\* components of other equal those of self.
IsPrefixOf(p, q) ==
    /\ Len(p) <= Len(q)
    /\ \A i \in 1..Len(p) : p[i] = q[i]

\* path::Extra::eq_components
EqComponents(p, q) ==
    /\ Len(p) = Len(q)
    /\ \A i \in 1..Len(p) : p[i] = q[i]

\* path::Extra::cmp_components: Iterator::cmp, lexicographic by component.
CmpComponents(p, q) ==
    LET n == Min(Len(p), Len(q))
        diff == {i \in 1..n : p[i] # q[i]}
    IN  IF diff = {}
        THEN CmpInt(Len(p), Len(q))
        ELSE LET i == CHOOSE j \in diff : \A k \in diff : j <= k
             IN  CmpInt(p[i], q[i])

\* Entry::cmp_newer_than
CmpNewerThan(e1, e2) ==
    IF CmpInt(e1.timestamp, e2.timestamp) # Equal
    THEN CmpInt(e1.timestamp, e2.timestamp)
    ELSE IF CmpInt(e1.payload_digest, e2.payload_digest) # Equal
         THEN CmpInt(e1.payload_digest, e2.payload_digest)
         ELSE CmpInt(e1.payload_length, e2.payload_length)

\* A faulty variant: an entry of equal newness counts as newer.
IsNotOlderThan(e1, e2) == CmpNewerThan(e1, e2) # Less

\* Entry::is_newer_than
IsNewerThan(e1, e2) == CmpNewerThan(e1, e2) = Greater

\* impl Ord for Entry
EntryCmp(e1, e2) ==
    IF CmpInt(e1.namespace_id, e2.namespace_id) # Equal
    THEN CmpInt(e1.namespace_id, e2.namespace_id)
    ELSE IF CmpInt(e1.subspace_id, e2.subspace_id) # Equal
    THEN CmpInt(e1.subspace_id, e2.subspace_id)
    ELSE IF CmpComponents(e1.path, e2.path) # Equal
    THEN CmpComponents(e1.path, e2.path)
    ELSE IF CmpInt(e1.timestamp, e2.timestamp) # Equal
    THEN CmpInt(e1.timestamp, e2.timestamp)
    ELSE IF CmpInt(e1.payload_digest, e2.payload_digest) # Equal
    THEN CmpInt(e1.payload_digest, e2.payload_digest)
    ELSE CmpInt(e1.payload_length, e2.payload_length)

\* impl PartialEq for Entry
EntryEq(e1, e2) ==
    /\ e1.namespace_id = e2.namespace_id
    /\ e1.subspace_id = e2.subspace_id
    /\ EqComponents(e1.path, e2.path)
    /\ e1.timestamp = e2.timestamp
    /\ e1.payload_digest = e2.payload_digest
    /\ e1.payload_length = e2.payload_length

\* ------------------------------------------------------------ parameters
None == {}
Some(x) == {x}
\* The value of a Some.
Unwrap(o) == CHOOSE x \in o : TRUE

\* group::Range::includes, a range being [start, end] with end = Some(e)
\* for End::Closed(e) and None for End::Open.
RangeIncludes(r, v) ==
    /\ r.start <= v
    /\ \A end \in r.end : v < end

\* The Permissions (AuthorisationTokens) that exist.  TokenOne is user
\* 1's own, for namespace 1 and every path and time; TokenTwo is user 2's,
\* for both namespaces, who may also write to subspace 1, below <<1, 1>>
\* before time 2.
TokenOne ==
    [user |-> 1, namespaces |-> {1}, subspaces |-> {}, paths |-> {<<>>},
     times |-> {[start |-> 0, end |-> None]}]
TokenTwo ==
    [user |-> 2, namespaces |-> {1, 2}, subspaces |-> {1},
     paths |-> {<<1, 1>>}, times |-> {[start |-> 0, end |-> Some(2)]}]
Tokens == {TokenOne, TokenTwo}

\* Params::is_authorised_write of the test parameters
IsAuthorisedWrite(entry, auth_token) ==
    /\ entry.namespace_id \in auth_token.namespaces
    /\ \/ auth_token.user = entry.subspace_id
       \/ entry.subspace_id \in auth_token.subspaces
    /\ \E path \in auth_token.paths : IsPrefixOf(path, entry.path)
    /\ \E time_range \in auth_token.times :
            RangeIncludes(time_range, entry.timestamp)

\* The digest of a payload (DefaultHasher over its bytes), taken to be
\* free of collisions: a payload of n bytes of 7 has digest n + 1.
HashPayload(payload) == Len(payload) + 1

\* ---------------------------------------------------------------- entries
AllEntries ==
    {[namespace_id |-> n, subspace_id |-> s, path |-> p, timestamp |-> t[1],
      payload_digest |-> t[2], payload_length |-> t[3]] :
        n \in Namespaces, s \in Subspaces, p \in Paths, t \in NewnessTuples}

\* A faulty variant: the pair is made without asking the predicate.
AuthorisedEntryNewUnchecked(entry, auth_token) ==
    Some([entry |-> entry, auth_token |-> auth_token])

\* AuthorisedEntry::new: Some(the pair) when the token authorises the
\* entry, None otherwise.
AuthorisedEntryNew(entry, auth_token) ==
    IF IsAuthorisedWrite(entry, auth_token)
    THEN Some([entry |-> entry, auth_token |-> auth_token])
    ELSE None

\* Every AuthorisedEntry that can be constructed.
AuthorisedEntries ==
    UNION {AuthorisedEntryNew(e, t) : e \in AllEntries, t \in Tokens}

\* The payload arguments of put: None, or Some(payload).
PayloadOptions == {None} \cup {Some(p) : p \in Payloads}

\* ------------------------------------------------------------ path limits
\* The number of bytes of a component: components are one-byte strings.
ComponentLen(c) == 1

\* usize::MAX, of a platform whose usize has 16 bits.
USIZE_MAX == 65535

\* The limits of the Params of the store tests.
TestParams ==
    [MAX_COMPONENT_COUNT |-> MAX_COMPONENT_COUNT,
     MAX_COMPONENT_LENGTH |-> MAX_COMPONENT_LENGTH,
     MAX_PATH_LENGTH |-> MAX_PATH_LENGTH]

PathOk ==
    [ok |-> TRUE, index |-> 0,
     within_max_component_length |-> TRUE,
     within_max_component_count |-> TRUE,
     within_max_path_length |-> TRUE]

\* The bytes of the components lo..hi of a path, summed by halves.
RECURSIVE SumSizes(_, _, _)
SumSizes(sizes, lo, hi) ==
    IF lo > hi THEN 0
    ELSE IF lo = hi THEN sizes[lo]
    ELSE LET mid == (lo + hi) \div 2
         IN  SumSizes(sizes, lo, mid) + SumSizes(sizes, mid + 1, hi)

\* The closure of from_path_limited at the component of an index:
\* sizes[index + 1] is c.bytes().len(), and total_sz on entry is the bytes
\* of the components before it, every addition before having succeeded
\* (the closure is not called after one that failed).
FromPathLimitedAt(params, sizes, index) ==
    LET c_sz == sizes[index + 1]
        total_sz == SumSizes(sizes, 1, index)
        total_overflowed == total_sz + c_sz > USIZE_MAX
        total == IF total_overflowed THEN total_sz ELSE total_sz + c_sz
        within_max_component_length == c_sz <= params.MAX_COMPONENT_LENGTH
        within_max_component_count == index <= params.MAX_COMPONENT_COUNT
        within_max_path_length ==
            total <= params.MAX_PATH_LENGTH /\ ~total_overflowed
    IN  [ok |-> /\ within_max_component_length
                /\ within_max_component_count
                /\ within_max_path_length,
         index |-> index,
         within_max_component_length |-> within_max_component_length,
         within_max_component_count |-> within_max_component_count,
         within_max_path_length |-> within_max_path_length]

\* path::Extra::from_path_limited::<Params, _, _>, of a path given by the
\* sizes of its components: collect stops at the first component whose
\* closure gives an error.
FromPathLimitedSizes(params, sizes) ==
    LET bad == {i \in 0..(Len(sizes) - 1) :
                    ~FromPathLimitedAt(params, sizes, i).ok}
    IN  IF bad = {}
        THEN PathOk
        ELSE FromPathLimitedAt(params, sizes,
                               CHOOSE i \in bad : \A j \in bad : i <= j)

\* path::Extra::from_path_limited under the Params of the store tests.
FromPathLimited(path) ==
    FromPathLimitedSizes(TestParams,
                         [i \in 1..Len(path) |-> ComponentLen(path[i])])

\* ------------------------------------------------------------ StoredEntry
\* StoredEntry::from_auth_entry
FromAuthEntry(auth_entry) ==
    [timestamp |-> auth_entry.entry.timestamp,
     payload_digest |-> auth_entry.entry.payload_digest,
     payload_length |-> auth_entry.entry.payload_length,
     payload |-> None,
     auth_token |-> auth_entry.auth_token]

\* StoredEntry::to_entry
ToEntry(stored_entry, namespace_id, subspace_id, path) ==
    [namespace_id |-> namespace_id, subspace_id |-> subspace_id,
     path |-> path, timestamp |-> stored_entry.timestamp,
     payload_digest |-> stored_entry.payload_digest,
     payload_length |-> stored_entry.payload_length]

\* StoredEntry::to_dummy_entry: the same dummy namespace, user and path.
ToDummyEntry(stored_entry) == ToEntry(stored_entry, 0, 0, <<>>)

\* impl Ord for StoredEntry
StoredCmp(a, b) == EntryCmp(ToDummyEntry(a), ToDummyEntry(b))

\* StoredEntry::to_auth_entry: AuthorisedEntry::new(..).expect(..)
ToAuthEntry(stored_entry, namespace_id, subspace_id, path) ==
    Unwrap(AuthorisedEntryNew(
        ToEntry(stored_entry, namespace_id, subspace_id, path),
        stored_entry.auth_token))

\* ------------------------------------------------------------- BinaryHeap
\* A BinaryHeap is its array; the element at index 1 is the greatest.
Swap(h, i, j) == [h EXCEPT ![i] = h[j], ![j] = h[i]]

\* BinaryHeap::sift_up: the new element rises while it is greater than its
\* parent.
\* A faulty variant: the new element never rises.
SiftUpNever(h, pos) == h

\* A faulty variant: the comparison reversed, the new element rises while
\* it is less than its parent.
RECURSIVE SiftUpReversed(_, _)
SiftUpReversed(h, pos) ==
    IF pos = 1
    THEN h
    ELSE LET parent == pos \div 2
         IN  IF StoredCmp(h[pos], h[parent]) # Less
             THEN h
             ELSE SiftUpReversed(Swap(h, pos, parent), parent)

RECURSIVE SiftUp(_, _)
SiftUp(h, pos) ==
    IF pos = 1
    THEN h
    ELSE LET parent == pos \div 2
         IN  IF StoredCmp(h[pos], h[parent]) # Greater
             THEN h
             ELSE SiftUp(Swap(h, pos, parent), parent)

\* A faulty variant: the last element pushed is the greatest, whatever it is.
HeapPushLast(h, x) == <<x>> \o h

\* BinaryHeap::push
HeapPush(h, x) == SiftUp(Append(h, x), Len(h) + 1)

\* BinaryHeap::peek
HeapPeek(h) == IF h = <<>> THEN None ELSE Some(h[1])

\* ------------------------------------------------------ InMem (StoreExt)
\* InMem.subspaces: the history of every (user, path); a location that
\* has no key in the maps has the empty history.
Locations == Subspaces \X Paths

\* InMem::new
EmptyExt == [l \in Locations |-> <<>>]

\* The order of the BTreeMaps: by user, then by path.
LocLess(l1, l2) ==
    \/ l1[1] < l2[1]
    \/ l1[1] = l2[1] /\ CmpComponents(l1[2], l2[2]) = Less

SortedLocations ==
    [i \in 1..Cardinality(Locations) |->
        CHOOSE l \in Locations :
            Cardinality({m \in Locations : LocLess(m, l)}) = i - 1]

\* InMem::iter_stored_entries: (user, path, newest) of every history that
\* has an element, in the order of the maps.
IterStoredEntries(ext) ==
    LET F[i \in 0..Len(SortedLocations)] ==
            IF i = 0
            THEN <<>>
            ELSE LET l == SortedLocations[i]
                 IN  IF ext[l] = <<>>
                     THEN F[i - 1]
                     ELSE Append(F[i - 1], <<l[1], l[2], ext[l][1]>>)
    IN  F[Len(SortedLocations)]

\* A faulty variant: the newest of the history is found whatever the
\* prefixes hold.
ExtGetUnpruned(ext, namespace_id, subspace_id, path) ==
    LET found == HeapPeek(ext[<<subspace_id, path>>])
    IN  IF found = None
        THEN [kind |-> "OkNone", payload |-> None, entry |-> None,
              found |-> None]
        ELSE IF Unwrap(found).payload # None
        THEN [kind |-> "OkSome", payload |-> Unwrap(found).payload,
              entry |-> None, found |-> found]
        ELSE [kind |-> "FoundEntryMissingPayload", payload |-> None,
              entry |-> Some(ToEntry(Unwrap(found), namespace_id,
                                     subspace_id, path)),
              found |-> found]

\* InMem::get: Ok(None), Ok(Some(payload)) or
\* Err(FoundEntryMissingPayload(entry)); found is the StoredEntry, if any,
\* that the answer is about (the found_entry of the code).
ExtGet(ext, namespace_id, subspace_id, path) ==
    LET found == HeapPeek(ext[<<subspace_id, path>>])
    IN  IF found = None
        THEN [kind |-> "OkNone", payload |-> None, entry |-> None,
              found |-> None]
        ELSE LET found_entry == Unwrap(found)
                 prefixes ==
                     {other_path \in Paths :
                         /\ ext[<<subspace_id, other_path>>] # <<>>
                         /\ IsPrefixOf(other_path, path)
                         /\ ~EqComponents(other_path, path)}
                 is_pruned ==
                     \E other_path \in prefixes :
                         StoredCmp(ext[<<subspace_id, other_path>>][1],
                                   found_entry) = Greater
             IN  IF is_pruned
                 THEN [kind |-> "OkNone", payload |-> None, entry |-> None,
                       found |-> None]
                 ELSE IF found_entry.payload # None
                 THEN [kind |-> "OkSome", payload |-> found_entry.payload,
                       entry |-> None, found |-> found]
                 ELSE [kind |-> "FoundEntryMissingPayload",
                       payload |-> None,
                       entry |-> Some(ToEntry(found_entry, namespace_id,
                                              subspace_id, path)),
                       found |-> found]

\* A faulty variant: a payload given later is not attached to the newest
\* of the history, and a payload held is not taken over.
ExtPutDetached(ext, namespace_id, auth_entry, payload) ==
    LET entry == auth_entry.entry
        loc == <<entry.subspace_id, entry.path>>
        given == FromAuthEntry(auth_entry)
    IN  IF ~FromPathLimited(entry.path).ok
        THEN [result |-> "PathLimit", ext |-> ext]
        ELSE IF /\ payload # None
                /\ HashPayload(Unwrap(payload)) # given.payload_digest
        THEN [result |-> "WrongDigest", ext |-> ext]
        ELSE [result |-> "Ok",
              ext |-> [ext EXCEPT
                          ![loc] = HeapPush(@, [given EXCEPT
                                                   !.payload = payload])]]

\* InMem::put
ExtPut(ext, namespace_id, auth_entry, payload) ==
    LET entry == auth_entry.entry
        loc == <<entry.subspace_id, entry.path>>
        given == FromAuthEntry(auth_entry)
    IN  IF ~FromPathLimited(entry.path).ok
        THEN [result |-> "PathLimit", ext |-> ext]
        ELSE IF /\ payload # None
                /\ HashPayload(Unwrap(payload)) # given.payload_digest
        THEN [result |-> "WrongDigest", ext |-> ext]
        ELSE LET copied == [given EXCEPT !.payload = payload]
                 entry_history == ext[loc]
                 same ==
                     /\ entry_history # <<>>
                     /\ StoredCmp(entry_history[1], copied) = Equal
                 stored_entry ==
                     IF /\ same
                        /\ entry_history[1].payload # None
                        /\ copied.payload = None
                     THEN [copied EXCEPT
                              !.payload = entry_history[1].payload]
                     ELSE copied
                 updated ==
                     IF same /\ entry_history[1].payload = None
                     THEN [entry_history EXCEPT
                              ![1].payload = copied.payload]
                     ELSE entry_history
             IN  [result |-> "Ok",
                  ext |-> [ext EXCEPT ![loc] = HeapPush(updated, stored_entry)]]

\* InMem::iter_histories with the inner loop of InMem::join: every element
\* of every history, the histories in the order of the maps and the
\* elements in the order of the heap's array.
HistoryItems(ext) ==
    LET F[i \in 0..Len(SortedLocations)] ==
            IF i = 0
            THEN <<>>
            ELSE LET l == SortedLocations[i]
                 IN  F[i - 1] \o
                     [k \in 1..Len(ext[l]) |-> <<l[1], l[2], ext[l][k]>>]
    IN  F[Len(SortedLocations)]

\* A faulty variant: the loop ends after its first item.
PutAllFirst(ext, namespace_id, items) ==
    IF items = <<>>
    THEN [result |-> "Ok", ext |-> ext]
    ELSE LET item == Head(items)
             r == ExtPut(ext, namespace_id,
                         ToAuthEntry(item[3], namespace_id, item[1], item[2]),
                         item[3].payload)
         IN  [result |-> IF r.result # "Ok" THEN "Put" ELSE "Ok",
              ext |-> r.ext]

\* The loop of InMem::join: put every item, stopping at the first error.
RECURSIVE PutAll(_, _, _)
PutAll(ext, namespace_id, items) ==
    IF items = <<>>
    THEN [result |-> "Ok", ext |-> ext]
    ELSE LET item == Head(items)
             r == ExtPut(ext, namespace_id,
                         ToAuthEntry(item[3], namespace_id, item[1], item[2]),
                         item[3].payload)
         IN  IF r.result # "Ok"
             THEN [result |-> "Put", ext |-> r.ext]
             ELSE PutAll(r.ext, namespace_id, Tail(items))

\* InMem::join
ExtJoin(ext, namespace_id, other, other_namespace_id) ==
    IF other_namespace_id = namespace_id
    THEN PutAll(ext, namespace_id, HistoryItems(other))
    ELSE [result |-> "WrongNamespace", ext |-> ext]

\* A faulty variant: nothing is pruned.
ExtIterUnpruned(ext, namespace_id) ==
    LET items == IterStoredEntries(ext)
    IN  [i \in 1..Len(items) |->
            ToAuthEntry(items[i][3], namespace_id, items[i][1], items[i][2])]

\* InMem::iter: the newest of every history that no newest of a strict
\* prefix, seen earlier in the order of the maps, is greater than.
ExtIter(ext, namespace_id) ==
    LET items == IterStoredEntries(ext)
        is_pruned(i) ==
            \E j \in 1..(i - 1) :
                /\ items[j][1] = items[i][1]
                /\ IsPrefixOf(items[j][2], items[i][2])
                /\ ~EqComponents(items[j][2], items[i][2])
                /\ StoredCmp(items[j][3], items[i][3]) = Greater
        F[i \in 0..Len(items)] ==
            IF i = 0
            THEN <<>>
            ELSE IF is_pruned(i)
                 THEN F[i - 1]
                 ELSE Append(F[i - 1],
                             ToAuthEntry(items[i][3], namespace_id,
                                         items[i][1], items[i][2]))
    IN  F[Len(items)]

\* ------------------------------------------------------------------ Store
\* Store::new
StoreNew(namespace_id) == [namespace_id |-> namespace_id, ext |-> EmptyExt]

\* Store::iter
StoreIter(s) == ExtIter(s.ext, s.namespace_id)

\* Store::get
StoreGet(s, subspace_id, path) ==
    ExtGet(s.ext, s.namespace_id, subspace_id, path)

\* A faulty variant: the entry's namespace is not compared.
StorePutUnchecked(s, auth_entry, payload) ==
    LET r == ExtPut(s.ext, s.namespace_id, auth_entry, payload)
    IN  [result |-> r.result, store |-> [s EXCEPT !.ext = r.ext],
         invoked |-> TRUE]

\* Store::put: the result, the store afterwards, and whether the backend
\* was called.
StorePut(s, auth_entry, payload) ==
    IF s.namespace_id = auth_entry.entry.namespace_id
    THEN LET r == ExtPut(s.ext, s.namespace_id, auth_entry, payload)
         IN  [result |-> r.result, store |-> [s EXCEPT !.ext = r.ext],
              invoked |-> TRUE]
    ELSE [result |-> "DifferentNamespace", store |-> s, invoked |-> FALSE]

\* A faulty variant: the namespaces are not compared.
StoreJoinUnchecked(s, other) ==
    LET r == ExtJoin(s.ext, s.namespace_id, other.ext, other.namespace_id)
    IN  [result |-> r.result, store |-> [s EXCEPT !.ext = r.ext],
         invoked |-> TRUE]

\* Store::join
StoreJoin(s, other) ==
    IF s.namespace_id = other.namespace_id
    THEN LET r == ExtJoin(s.ext, s.namespace_id, other.ext,
                          other.namespace_id)
         IN  [result |-> r.result, store |-> [s EXCEPT !.ext = r.ext],
              invoked |-> TRUE]
    ELSE [result |-> "DifferentNamespace", store |-> s, invoked |-> FALSE]

\* ---------------------------------------------------------- state machine
\* Stores A and B are of namespace 1 and store C of namespace 2.
\* No call of a pure function is under way.
NoCall == [fn |-> "none", args |-> <<>>, ret |-> <<>>]

Init ==
    /\ store = [x \in Stores |-> StoreNew(IF x = "C" THEN 2 ELSE 1)]
    /\ call = NoCall

RECURSIVE SumLen(_, _)
SumLen(ext, locs) ==
    IF locs = {}
    THEN 0
    ELSE LET l == CHOOSE m \in locs : TRUE
         IN  Len(ext[l]) + SumLen(ext, locs \ {l})

\* The number of StoredEntrys in the histories of a backend.
StoredCount(ext) == SumLen(ext, Locations)

RECURSIVE TotalStored(_, _)
TotalStored(st, xs) ==
    IF xs = {}
    THEN 0
    ELSE LET x == CHOOSE y \in xs : TRUE
         IN  StoredCount(st[x].ext) + TotalStored(st, xs \ {x})

\* store[x].put(auth_entry, payload)
Put(x, auth_entry, payload) ==
    LET r == StorePut(store[x], auth_entry, payload)
    IN  /\ store' = [store EXCEPT ![x] = r.store]
        /\ TotalStored(store', Stores) <= MaxStored
        /\ UNCHANGED call

\* store[x].join(&store[y]): two distinct stores, as the borrows require.
Join(x, y) ==
    LET r == StoreJoin(store[x], store[y])
    IN  /\ x # y
        /\ store' = [store EXCEPT ![x] = r.store]
        /\ TotalStored(store', Stores) <= MaxStored
        /\ UNCHANGED call

Next ==
    \/ \E x \in Stores, auth_entry \in AuthorisedEntries,
          payload \in PayloadOptions : Put(x, auth_entry, payload)
    \/ \E x \in Stores, y \in Stores : Join(x, y)

Spec == Init /\ [][Next]_vars

\* The same with the three stores of one namespace.
InitSameNamespace ==
    /\ store = [x \in Stores |-> StoreNew(1)]
    /\ call = NoCall

SpecSameNamespace == InitSameNamespace /\ [][Next]_vars

\* ------------------------------------------------------------- properties
\* The set of Entrys that iter yields: the entries the store retains.
RetainedEntries(s) ==
    LET it == StoreIter(s) IN {it[i].entry : i \in 1..Len(it)}

\* The Entry, if any, that get answers about.
FoundEntry(s, subspace_id, path) ==
    {ToEntry(f, s.namespace_id, subspace_id, path) :
        f \in StoreGet(s, subspace_id, path).found}

StrictPrefix(p, q) == IsPrefixOf(p, q) /\ ~EqComponents(p, q)

\* The newest Entry of every history of a store, pruned or not.
NewestEntries(s) ==
    {ToEntry(s.ext[l][1], s.namespace_id, l[1], l[2]) :
        l \in {m \in Locations : s.ext[m] # <<>>}}

\* Two distinct stores of one namespace: a join of them reaches the backend.
Joinable(x, y) ==
    /\ x # y
    /\ store[x].namespace_id = store[y].namespace_id

\* C1: in every store that puts and joins have built from the empty store,
\* no two retained entries old and new have the same subspace, new's path a
\* prefix of old's path, and new newer than old.
C1_PrefixPruningInvariant ==
    \A x \in Stores :
        LET retained == RetainedEntries(store[x])
        IN  \A old \in retained, new \in retained :
                ~ /\ old.subspace_id = new.subspace_id
                  /\ IsPrefixOf(new.path, old.path)
                  /\ IsNewerThan(new, old)

\* A store holds an entry that a newer one at a prefix of its path, or at
\* its path, keeps out of what the store retains.
C1_Witness ==
    \E x \in Stores :
        /\ \E old \in NewestEntries(store[x]) \ RetainedEntries(store[x]),
              new \in RetainedEntries(store[x]) :
                /\ old.subspace_id = new.subspace_id
                /\ StrictPrefix(new.path, old.path)
                /\ IsNewerThan(new, old)
        /\ \E l \in Locations : Len(store[x].ext[l]) > 1

\* C2: a.join(b) and b.join(a) leave the two stores retaining the same set
\* of entries.
C2_JoinCommutes ==
    \A x \in Stores, y \in Stores :
        Joinable(x, y) =>
            LET ab == StoreJoin(store[x], store[y])
                ba == StoreJoin(store[y], store[x])
            IN  /\ ab.result = "Ok"
                /\ ba.result = "Ok"
                /\ RetainedEntries(ab.store) = RetainedEntries(ba.store)

\* Two stores that retain different entries at one location, and one of
\* them an entry that the other prunes, are joined each into the other.
C2_Witness ==
    \E x \in Stores, y \in Stores :
        /\ Joinable(x, y)
        /\ \E e \in RetainedEntries(store[x]), f \in RetainedEntries(store[y]) :
              /\ e.subspace_id = f.subspace_id
              /\ EqComponents(e.path, f.path)
              /\ IsNewerThan(f, e)
        /\ \E e \in RetainedEntries(store[x]), f \in RetainedEntries(store[y]) :
              /\ e.subspace_id = f.subspace_id
              /\ StrictPrefix(f.path, e.path)
              /\ IsNewerThan(f, e)
        /\ RetainedEntries(StoreJoin(store[x], store[y]).store)
               = RetainedEntries(StoreJoin(store[y], store[x]).store)

\* The entries of a set that no entry of the set, of the same subspace and
\* at a prefix of their path (their path included), is newer than.
Reduced(entries) ==
    {e \in entries :
        ~ \E f \in entries :
              /\ f.subspace_id = e.subspace_id
              /\ IsPrefixOf(f.path, e.path)
              /\ IsNewerThan(f, e)}

\* C3: after a.join(b), a retains the union of what a and b retained, less
\* every entry that a newer entry of the union at a prefix of its path
\* (the equal path included) prunes: at every (subspace, path) the entry
\* greatest by (timestamp, payload_digest, payload_length) stays.
C3_JoinIsReducedUnion ==
    \A x \in Stores, y \in Stores :
        Joinable(x, y) =>
            LET r == StoreJoin(store[x], store[y])
                union == RetainedEntries(store[x]) \cup
                             RetainedEntries(store[y])
            IN  /\ r.result = "Ok"
                /\ RetainedEntries(r.store) = Reduced(union)
                /\ \A e \in union :
                       \E g \in RetainedEntries(r.store) :
                           /\ g.subspace_id = e.subspace_id
                           /\ IsPrefixOf(g.path, e.path)
                           /\ CmpNewerThan(g, e) # Less

\* A join brings an entry that prunes one the store retained, and an entry
\* at a location where the store retains a different one.
C3_Witness ==
    \E x \in Stores, y \in Stores :
        /\ Joinable(x, y)
        /\ LET r == StoreJoin(store[x], store[y])
               union == RetainedEntries(store[x]) \cup
                            RetainedEntries(store[y])
           IN  /\ r.result = "Ok"
               /\ r.store # store[x]
               /\ Reduced(union) # union
               /\ RetainedEntries(store[y]) \ RetainedEntries(store[x]) # {}
               /\ RetainedEntries(store[x]) \ RetainedEntries(r.store) # {}
               /\ RetainedEntries(r.store) = Reduced(union)

\* What a put is asked: an authorised entry and maybe its payload.
Requests == AuthorisedEntries \X PayloadOptions

\* The store after put(r1) and then put(r2), each accepted or refused.
PutBoth(s, r1, r2) ==
    StorePut(StorePut(s, r1[1], r1[2]).store, r2[1], r2[2]).store

\* What the readers of a store see: the entries of iter, and the answer of
\* get at every location.
Observed(s) ==
    [iter |-> RetainedEntries(s),
     get |-> [l \in Locations |->
                 LET r == StoreGet(s, l[1], l[2])
                 IN  [kind |-> r.kind, payload |-> r.payload,
                      entry |-> r.entry]]]

\* Two entries of one subspace, the path of one a prefix of the other's.
Conflict(e1, e2) ==
    /\ e1.subspace_id = e2.subspace_id
    /\ IsPrefixOf(e1.path, e2.path) \/ IsPrefixOf(e2.path, e1.path)

\* C4: two put requests applied to a store in either order leave the same
\* entries in iter and the same answer of get for every key, so any
\* arrival order of a collection of requests does; and of two conflicting
\* requests the one that is newer at a prefix of the other's path (the
\* same path included) keeps the other out, whichever came first.
C4_PutOrderIndependent ==
    \A x \in Stores :
        TotalStored(store, Stores) + 2 <= MaxStored =>
            \A r1 \in Requests, r2 \in Requests :
                LET s12 == PutBoth(store[x], r1, r2)
                    s21 == PutBoth(store[x], r2, r1)
                    n == r1[1].entry
                    o == r2[1].entry
                IN  /\ Observed(s12) = Observed(s21)
                    /\ ( /\ StorePut(store[x], r1[1], r1[2]).result = "Ok"
                         /\ StorePut(store[x], r2[1], r2[2]).result = "Ok"
                         /\ o.subspace_id = n.subspace_id
                         /\ IsPrefixOf(n.path, o.path)
                         /\ IsNewerThan(n, o) )
                       => /\ o \notin RetainedEntries(s12)
                          /\ n \in Reduced(RetainedEntries(store[x]) \cup {n})
                                 => n \in RetainedEntries(s12)

\* A store that holds an entry takes two conflicting requests, of which
\* either alone would leave it a different store to read, in both orders.
C4_Witness ==
    \E x \in Stores :
        /\ TotalStored(store, Stores) + 2 <= MaxStored
        /\ RetainedEntries(store[x]) # {}
        /\ \E r1 \in Requests, r2 \in Requests :
              LET s1 == StorePut(store[x], r1[1], r1[2])
                  s2 == StorePut(store[x], r2[1], r2[2])
              IN  /\ s1.result = "Ok"
                  /\ s2.result = "Ok"
                  /\ Conflict(r1[1].entry, r2[1].entry)
                  /\ IsNewerThan(r1[1].entry, r2[1].entry)
                  /\ Observed(s1.store).iter # Observed(s2.store).iter
                  /\ Observed(PutBoth(store[x], r1, r2)) # Observed(s2.store)
                  /\ Observed(PutBoth(store[x], r1, r2))
                         = Observed(PutBoth(store[x], r2, r1))

\* C5: joining into a a store b whose retained entries a all retains (b a
\* copy of a included) leaves the set of entries a retains unchanged.
C5_JoinOfSubsetIsIdempotent ==
    \A x \in Stores, y \in Stores :
        ( /\ Joinable(x, y)
          /\ RetainedEntries(store[y]) \subseteq RetainedEntries(store[x]) )
        => LET r == StoreJoin(store[x], store[y])
           IN  /\ r.result = "Ok"
               /\ RetainedEntries(r.store) = RetainedEntries(store[x])

\* A store b that retains an entry, and holds another it does not retain,
\* is joined into a store a that retains what b retains.
C5_Witness ==
    \E x \in Stores, y \in Stores :
        /\ Joinable(x, y)
        /\ RetainedEntries(store[y]) # {}
        /\ RetainedEntries(store[y]) \subseteq RetainedEntries(store[x])
        /\ StoredCount(store[y].ext) > Cardinality(RetainedEntries(store[y]))
        /\ LET r == StoreJoin(store[x], store[y])
           IN  /\ r.store # store[x]
               /\ RetainedEntries(r.store) = RetainedEntries(store[x])

\* C6: (a join b) join c and a join (b join c) retain the same set of
\* entries.
C6_JoinAssociates ==
    \A x \in Stores, y \in Stores, z \in Stores :
        ( /\ Joinable(x, y)
          /\ Joinable(y, z)
          /\ Joinable(x, z) )
        => LET ab == StoreJoin(store[x], store[y])
               ab_c == StoreJoin(ab.store, store[z])
               bc == StoreJoin(store[y], store[z])
               a_bc == StoreJoin(store[x], bc.store)
           IN  /\ ab_c.result = "Ok"
               /\ a_bc.result = "Ok"
               /\ RetainedEntries(ab_c.store) = RetainedEntries(a_bc.store)

\* Three stores that retain three different entries, two of them at one
\* location and one at a prefix of it that prunes one of the two, are
\* joined in both groupings.
C6_Witness ==
    \E x \in Stores, y \in Stores, z \in Stores :
        /\ Joinable(x, y)
        /\ Joinable(y, z)
        /\ Joinable(x, z)
        /\ \E e \in RetainedEntries(store[x]), f \in RetainedEntries(store[y]),
              g \in RetainedEntries(store[z]) :
                /\ e.subspace_id = f.subspace_id
                /\ f.subspace_id = g.subspace_id
                /\ EqComponents(e.path, f.path)
                /\ StrictPrefix(g.path, e.path)
                /\ IsNewerThan(f, g)
                /\ IsNewerThan(g, e)
        /\ RetainedEntries(StoreJoin(StoreJoin(store[x], store[y]).store,
                                     store[z]).store)
               = RetainedEntries(StoreJoin(store[x],
                                           StoreJoin(store[y],
                                                     store[z]).store).store)

\* The entries a store shows: those iter yields and those get answers
\* about.
VisibleEntries(s) ==
    RetainedEntries(s) \cup
        UNION {FoundEntry(s, l[1], l[2]) : l \in Locations}

\* A payload that put accepts for the entry: none, or one of the digest.
ValidPayload(auth_entry, payload) ==
    \A p \in payload : HashPayload(p) = auth_entry.entry.payload_digest

\* C7 as stated: after a successful put of n, no entry o of n's subspace
\* with n.path a strict prefix of o.path and o not newer than n (n newer
\* than o, or of o's timestamp, payload_digest and payload_length) is
\* returned by get or yielded by iter.
C7_AsStated ==
    \A x \in Stores, r \in Requests :
        LET p == StorePut(store[x], r[1], r[2])
            n == r[1].entry
        IN  p.result = "Ok" =>
                \A o \in VisibleEntries(p.store) :
                    ~ /\ o.subspace_id = n.subspace_id
                      /\ StrictPrefix(n.path, o.path)
                      /\ ~IsNewerThan(o, n)

\* C7: after a successful put of n, no entry o of n's subspace with n.path
\* a strict prefix of o.path and n newer than o is returned by get or
\* yielded by iter.
C7_PutPrunesOlderUnderPrefix ==
    \A x \in Stores, r \in Requests :
        LET p == StorePut(store[x], r[1], r[2])
            n == r[1].entry
        IN  p.result = "Ok" =>
                \A o \in VisibleEntries(p.store) :
                    ~ /\ o.subspace_id = n.subspace_id
                      /\ StrictPrefix(n.path, o.path)
                      /\ IsNewerThan(n, o)

\* A store shows an entry o, and a put of a newer n at a strict prefix of
\* o's path is accepted and takes o out of iter and of get.
C7_Witness ==
    \E x \in Stores, r \in Requests :
        LET p == StorePut(store[x], r[1], r[2])
            n == r[1].entry
        IN  /\ p.result = "Ok"
            /\ \E o \in RetainedEntries(store[x]) :
                  /\ o \in FoundEntry(store[x], o.subspace_id, o.path)
                  /\ o.subspace_id = n.subspace_id
                  /\ StrictPrefix(n.path, o.path)
                  /\ IsNewerThan(n, o)
                  /\ o \notin VisibleEntries(p.store)
                  /\ n \in RetainedEntries(p.store)

\* C8: when the store retains e and put is given n of e's subspace, with
\* e.path a strict prefix of n.path and e newer than n, the put is accepted,
\* iter does not yield n, and get at n's location does not answer with n:
\* it answers as it did before the put.
C8_PutUnderNewerPrefixStaysHidden ==
    \A x \in Stores, r \in Requests :
        LET p == StorePut(store[x], r[1], r[2])
            n == r[1].entry
        IN  ( /\ store[x].namespace_id = n.namespace_id
              /\ ValidPayload(r[1], r[2])
              /\ \E e \in RetainedEntries(store[x]) :
                    /\ e.subspace_id = n.subspace_id
                    /\ StrictPrefix(e.path, n.path)
                    /\ IsNewerThan(e, n) )
            => /\ p.result = "Ok"
               /\ n \notin RetainedEntries(p.store)
               /\ n \notin FoundEntry(p.store, n.subspace_id, n.path)
               /\ Observed(p.store).get[<<n.subspace_id, n.path>>]
                      = Observed(store[x]).get[<<n.subspace_id, n.path>>]

\* A store retains e and nothing under it, and is given with its payload
\* an older n under e's path: the put is stored and n stays hidden.
C8_Witness ==
    \E x \in Stores, r \in Requests :
        LET p == StorePut(store[x], r[1], r[2])
            n == r[1].entry
        IN  /\ r[2] # None
            /\ p.result = "Ok"
            /\ p.store # store[x]
            /\ \E e \in RetainedEntries(store[x]) :
                  /\ e.subspace_id = n.subspace_id
                  /\ StrictPrefix(e.path, n.path)
                  /\ IsNewerThan(e, n)
            /\ n \in NewestEntries(p.store)
            /\ n \notin VisibleEntries(p.store)

\* C9: when put is given n at the (subspace, path) of a retained entry e,
\* e is replaced only if n is newer, and is replaced if n is newer; if n is
\* not newer, put returns Ok and iter yields the set of entries it yielded.
C9_ReplacedOnlyIfNewer ==
    \A x \in Stores, r \in Requests :
        LET p == StorePut(store[x], r[1], r[2])
            n == r[1].entry
        IN  \A e \in RetainedEntries(store[x]) :
                ( /\ e.namespace_id = n.namespace_id
                  /\ e.subspace_id = n.subspace_id
                  /\ EqComponents(e.path, n.path)
                  /\ ValidPayload(r[1], r[2]) )
                => /\ p.result = "Ok"
                   /\ e \notin RetainedEntries(p.store) <=> IsNewerThan(n, e)
                   /\ ~IsNewerThan(n, e) =>
                          RetainedEntries(p.store) = RetainedEntries(store[x])

\* A store that retains e is given an older n at e's location: the put is
\* stored without a change to what iter yields; and it is given a newer one,
\* which iter yields in place of e.
C9_Witness ==
    \E x \in Stores : \E e \in RetainedEntries(store[x]) :
        /\ \E r \in Requests :
              LET p == StorePut(store[x], r[1], r[2])
                  n == r[1].entry
              IN  /\ n.subspace_id = e.subspace_id
                  /\ EqComponents(e.path, n.path)
                  /\ IsNewerThan(e, n)
                  /\ p.result = "Ok"
                  /\ p.store # store[x]
                  /\ RetainedEntries(p.store) = RetainedEntries(store[x])
        /\ \E r \in Requests :
              LET p == StorePut(store[x], r[1], r[2])
                  n == r[1].entry
              IN  /\ n.subspace_id = e.subspace_id
                  /\ EqComponents(e.path, n.path)
                  /\ IsNewerThan(n, e)
                  /\ p.result = "Ok"
                  /\ n \in RetainedEntries(p.store)
                  /\ e \notin RetainedEntries(p.store)

\* C10: Store::put of an entry of another namespace than the store's, and
\* Store::join with a store of another namespace, return
\* DifferentNamespace without a call of the backend, and the stores stay as
\* they were.
C10_DifferentNamespaceRejected ==
    /\ \A x \in Stores, r \in Requests :
           LET p == StorePut(store[x], r[1], r[2])
           IN  store[x].namespace_id # r[1].entry.namespace_id =>
                   /\ p.result = "DifferentNamespace"
                   /\ ~p.invoked
                   /\ p.store = store[x]
    /\ \A x \in Stores, y \in Stores :
           LET j == StoreJoin(store[x], store[y])
           IN  store[x].namespace_id # store[y].namespace_id =>
                   /\ j.result = "DifferentNamespace"
                   /\ ~j.invoked
                   /\ j.store = store[x]

\* Two stores of different namespaces that both retain entries: a join of
\* either with the other is rejected, and so is a put into one of them of
\* an entry that the other retains.
C10_Witness ==
    \E x \in Stores, y \in Stores :
        /\ store[x].namespace_id # store[y].namespace_id
        /\ RetainedEntries(store[x]) # {}
        /\ RetainedEntries(store[y]) # {}
        /\ StoreJoin(store[x], store[y]).result = "DifferentNamespace"
        /\ StoreJoin(store[y], store[x]).result = "DifferentNamespace"
        /\ \E r \in Requests :
              /\ r[1].entry \in RetainedEntries(store[y])
              /\ StorePut(store[x], r[1], r[2]).result = "DifferentNamespace"

\* C11: whatever puts and joins a store was asked, accepted or rejected,
\* every entry iter yields is of the store's namespace: no put of an entry
\* of another namespace and no join with a store of another namespace
\* changes the store, and iter yields entries of the store's namespace
\* before and after every put and join.
C11_RetainedAreOfTheNamespace ==
    \A x \in Stores :
        LET OfNamespace(s) ==
                \A e \in RetainedEntries(s) :
                    e.namespace_id = store[x].namespace_id
        IN  /\ OfNamespace(store[x])
            /\ \A r \in Requests :
                   LET p == StorePut(store[x], r[1], r[2])
                   IN  /\ p.store # store[x] =>
                           r[1].entry.namespace_id = store[x].namespace_id
                       /\ p.store.namespace_id = store[x].namespace_id
                       /\ OfNamespace(p.store)
            /\ \A y \in Stores \ {x} :
                   LET j == StoreJoin(store[x], store[y])
                   IN  /\ j.store # store[x] =>
                           store[y].namespace_id = store[x].namespace_id
                       /\ j.store.namespace_id = store[x].namespace_id
                       /\ OfNamespace(j.store)

\* Two stores of different namespaces retain entries that differ in the
\* namespace only, each the entry of its own namespace, and a put of
\* either entry into the other store is rejected.
C11_Witness ==
    \E x \in Stores, y \in Stores :
        /\ store[x].namespace_id # store[y].namespace_id
        /\ \E e \in RetainedEntries(store[x]), f \in RetainedEntries(store[y]) :
              /\ e.namespace_id = store[x].namespace_id
              /\ f.namespace_id = store[y].namespace_id
              /\ f = [e EXCEPT !.namespace_id = store[y].namespace_id]
              /\ \E r \in Requests :
                    /\ r[1].entry = f
                    /\ StorePut(store[x], r[1], r[2]).result
                           = "DifferentNamespace"

\* The entries iter yields at a (subspace, path).
RetainedAt(s, l) ==
    {e \in RetainedEntries(s) :
        e.subspace_id = l[1] /\ EqComponents(e.path, l[2])}

\* C12: at every (subspace, path) get agrees with iter: it returns Ok(None)
\* exactly when iter yields no entry there; it fails with
\* FoundEntryMissingPayload (of that entry) exactly when iter yields an
\* entry there whose StoredEntry has no payload; otherwise it returns
\* Ok(Some(payload)) with the payload of the entry iter yields there.
C12_GetAgreesWithIter ==
    \A x \in Stores, l \in Locations :
        LET g == StoreGet(store[x], l[1], l[2])
            at == RetainedAt(store[x], l)
            newest == HeapPeek(store[x].ext[l])
        IN  /\ Cardinality(at) <= 1
            /\ g.kind = "OkNone" <=> at = {}
            /\ g.kind = "FoundEntryMissingPayload" <=>
                   at # {} /\ \A n \in newest : n.payload = None
            /\ g.kind = "FoundEntryMissingPayload" => g.entry = at
            /\ g.kind = "OkSome" =>
                   /\ at # {}
                   /\ at = FoundEntry(store[x], l[1], l[2])
                   /\ \A n \in newest :
                          /\ g.payload = n.payload
                          /\ at = {ToEntry(n, store[x].namespace_id,
                                           l[1], l[2])}

\* A store with a location whose newest entry is pruned, one whose entry
\* has no payload, and one whose entry has its payload.
C12_Witness ==
    \E x \in Stores :
        /\ \E l \in Locations :
              /\ store[x].ext[l] # <<>>
              /\ RetainedAt(store[x], l) = {}
              /\ StoreGet(store[x], l[1], l[2]).kind = "OkNone"
        /\ \E l \in Locations :
              /\ RetainedAt(store[x], l) # {}
              /\ StoreGet(store[x], l[1], l[2]).kind
                     = "FoundEntryMissingPayload"
        /\ \E l \in Locations :
              /\ RetainedAt(store[x], l) # {}
              /\ StoreGet(store[x], l[1], l[2]).kind = "OkSome"

\* What get answers at the location of an entry.
GetAt(s, e) ==
    LET g == StoreGet(s, e.subspace_id, e.path)
    IN  [kind |-> g.kind, payload |-> g.payload, entry |-> g.entry]

\* get's answer at e's location is about e.
Found(s, e) == FoundEntry(s, e.subspace_id, e.path) = {e}

MissingPayload(e) ==
    [kind |-> "FoundEntryMissingPayload", payload |-> None,
     entry |-> Some(e)]

\* The payloads that a join with other hands to put together with e.
JoinedPayloads(other, e) ==
    UNION {other.ext[<<e.subspace_id, e.path>>][k].payload :
              k \in {i \in 1..Len(other.ext[<<e.subspace_id, e.path>>]) :
                        ToEntry(other.ext[<<e.subspace_id, e.path>>][i],
                                e.namespace_id, e.subspace_id, e.path) = e}}

\* C13: (a) a put(e, None) that makes e the entry found at its location
\* makes get fail there with FoundEntryMissingPayload(e); (b) while get
\* fails so, whatever put or join comes next, get goes on failing so, or e
\* is no longer the entry found, or get returns a payload that a put of e
\* (one made by a join included) supplied; (c) a successful put(e,
\* Some(payload)) while e is the entry found makes get return that payload;
\* (d) while get returns a payload for e, whatever put or join comes next,
\* a put(e, None) included, get returns the same payload or e is no longer
\* the entry found.
C13_PayloadAttachedLater ==
    /\ \A x \in Stores : \A e \in VisibleEntries(store[x]) :
           LET before == GetAt(store[x], e)
               Step(after, supplied) ==
                   /\ before = MissingPayload(e) =>
                          \/ ~Found(after, e)
                          \/ GetAt(after, e) = before
                          \/ /\ GetAt(after, e).kind = "OkSome"
                             /\ GetAt(after, e).payload # None
                             /\ GetAt(after, e).payload \subseteq supplied
                   /\ before.kind = "OkSome" =>
                          \/ ~Found(after, e)
                          \/ GetAt(after, e) = before
           IN  /\ Found(store[x], e)
               /\ before.kind \in {"FoundEntryMissingPayload", "OkSome"}
               /\ \A r \in Requests :
                      LET p == StorePut(store[x], r[1], r[2])
                      IN  /\ Step(p.store,
                                  IF r[1].entry = e /\ p.result = "Ok"
                                  THEN r[2] ELSE None)
                          /\ ( r[1].entry = e /\ r[2] # None
                               /\ p.result = "Ok" )
                             => /\ Found(p.store, e)
                                /\ GetAt(p.store, e).kind = "OkSome"
                                /\ GetAt(p.store, e).payload = r[2]
                          /\ ( r[1].entry = e /\ r[2] = None )
                             => /\ p.result = "Ok"
                                /\ GetAt(p.store, e) = before
               /\ \A y \in Stores \ {x} :
                      Step(StoreJoin(store[x], store[y]).store,
                           JoinedPayloads(store[y], e))
    /\ \A x \in Stores, r \in Requests :
           LET p == StorePut(store[x], r[1], r[2])
               e == r[1].entry
           IN  ( /\ r[2] = None
                 /\ p.result = "Ok"
                 /\ ~Found(store[x], e)
                 /\ Found(p.store, e) )
               => GetAt(p.store, e) = MissingPayload(e)

\* get fails at the location of e for want of its payload; a put of e
\* with its payload would make get return it, and a put of e without a
\* payload after that would leave it attached.
C13_Witness ==
    \E x \in Stores : \E e \in RetainedEntries(store[x]) :
        /\ GetAt(store[x], e) = MissingPayload(e)
        /\ \E r \in Requests :
              LET p == StorePut(store[x], r[1], r[2])
                  q == StorePut(p.store, r[1], None)
              IN  /\ r[1].entry = e
                  /\ r[2] # None
                  /\ p.result = "Ok"
                  /\ GetAt(p.store, e).kind = "OkSome"
                  /\ GetAt(p.store, e).payload = r[2]
                  /\ q.result = "Ok"
                  /\ q.store # p.store
                  /\ GetAt(q.store, e) = GetAt(p.store, e)

\* The number of bytes of a payload.
PayloadLen(payload) == Len(payload)

\* C14 as stated: put(entry, Some(payload)) is accepted only if the digest
\* of the payload is entry.payload_digest and the length of the payload is
\* entry.payload_length; on a mismatch of either, put returns an error and
\* the entries iter yields and the answers of get are unchanged.
C14_AsStated ==
    \A x \in Stores, r \in Requests :
        \A payload \in r[2] :
            LET p == StorePut(store[x], r[1], r[2])
                entry == r[1].entry
                matches ==
                    /\ HashPayload(payload) = entry.payload_digest
                    /\ PayloadLen(payload) = entry.payload_length
            IN  /\ p.result = "Ok" => matches
                /\ ~matches =>
                       /\ p.result # "Ok"
                       /\ Observed(p.store) = Observed(store[x])

\* A store returns from get a payload whose length is not the
\* payload_length of the entry it retains at the location.
C14_Witness ==
    \E x \in Stores : \E e \in RetainedEntries(store[x]) :
        LET g == GetAt(store[x], e)
        IN  /\ g.kind = "OkSome"
            /\ \E payload \in g.payload :
                  /\ HashPayload(payload) = e.payload_digest
                  /\ PayloadLen(payload) # e.payload_length

\* The join documented for Store::join, on the union of two stores: drop
\* what has a timestamp strictly less than that of another entry of its
\* subspace at a prefix of its path; of what is left with equal subspace,
\* path and timestamp keep the greatest payload_digest; of what is left
\* with equal digest too keep the greatest payload_length.
JoinAsDocumented(union) ==
    LET SamePoint(e, f) ==
            /\ e.subspace_id = f.subspace_id
            /\ EqComponents(e.path, f.path)
            /\ e.timestamp = f.timestamp
        byTimestamp ==
            {e \in union :
                ~ \E f \in union \ {e} :
                      /\ f.subspace_id = e.subspace_id
                      /\ IsPrefixOf(f.path, e.path)
                      /\ e.timestamp < f.timestamp}
        byDigest ==
            {e \in byTimestamp :
                ~ \E f \in byTimestamp :
                      /\ SamePoint(e, f)
                      /\ e.payload_digest < f.payload_digest}
    IN  {e \in byDigest :
            ~ \E f \in byDigest :
                  /\ SamePoint(e, f)
                  /\ e.payload_digest = f.payload_digest
                  /\ e.payload_length < f.payload_length}

\* C15 as stated: a join removes an entry at path p only when its
\* timestamp is strictly less than that of another entry of its subspace
\* at a prefix of p, or when it loses the tie-break (greatest
\* payload_digest, then greatest payload_length) among the entries of its
\* own subspace, path and timestamp: what the documented join keeps of
\* the union, the store retains after the join.
C15_AsStated ==
    \A x \in Stores, y \in Stores :
        Joinable(x, y) =>
            LET r == StoreJoin(store[x], store[y])
                union == RetainedEntries(store[x]) \cup
                             RetainedEntries(store[y])
            IN  /\ r.result = "Ok"
                /\ JoinAsDocumented(union) \subseteq RetainedEntries(r.store)

\* A store retains an entry under a prefix at which another store retains
\* an entry of the same timestamp and a greater payload_digest, and the
\* join of the two no longer retains the first.
C15_Witness ==
    \E x \in Stores, y \in Stores :
        /\ Joinable(x, y)
        /\ \E o \in RetainedEntries(store[x]), n \in RetainedEntries(store[y]) :
              /\ o.subspace_id = n.subspace_id
              /\ StrictPrefix(n.path, o.path)
              /\ o.timestamp = n.timestamp
              /\ o.payload_digest < n.payload_digest
              /\ o \notin RetainedEntries(StoreJoin(store[x], store[y]).store)
              /\ o \notin RetainedEntries(StoreJoin(store[y], store[x]).store)

\* The AuthorisedEntrys (entry and token together) that iter yields.
RetainedAuthEntries(s) ==
    LET it == StoreIter(s) IN {it[i] : i \in 1..Len(it)}

\* Two stores retain one Entry, each under a different token.
SameEntryOtherToken(x, y) ==
    \E a \in RetainedAuthEntries(store[x]),
       b \in RetainedAuthEntries(store[y]) :
        /\ a.entry = b.entry
        /\ a.auth_token # b.auth_token

\* C16 as stated: when stores A and B of one namespace retain the same
\* Entry under different valid tokens, iter yields the same (entry, token)
\* pairs after A.join(B) as after B.join(A).
C16_AsStated ==
    \A x \in Stores, y \in Stores :
        Joinable(x, y) /\ SameEntryOtherToken(x, y) =>
            LET ab == StoreJoin(store[x], store[y])
                ba == StoreJoin(store[y], store[x])
            IN  /\ ab.result = "Ok"
                /\ ba.result = "Ok"
                /\ RetainedAuthEntries(ab.store) = RetainedAuthEntries(ba.store)

\* Two such stores, whose joins in the two orders retain the same Entrys
\* while one Entry comes with a different token in each.
C16_Witness ==
    \E x \in Stores, y \in Stores :
        /\ Joinable(x, y)
        /\ SameEntryOtherToken(x, y)
        /\ LET ab == StoreJoin(store[x], store[y]).store
               ba == StoreJoin(store[y], store[x]).store
           IN  /\ RetainedEntries(ab) = RetainedEntries(ba)
               /\ \E a \in RetainedAuthEntries(ab),
                     b \in RetainedAuthEntries(ba) :
                      /\ a.entry = b.entry
                      /\ a.auth_token # b.auth_token

\* ----------------------------------------------- the newest-entries query
\* u64::MAX, scaled down: lengths and sums above it do not fit a u64.
U64_MAX == 3

\* u64::checked_add
CheckedAdd(x, y) == IF x + y > U64_MAX THEN None ELSE Some(x + y)

\* The entries of iter, as the query collects them.
IterEntries(ext, namespace_id) ==
    LET it == ExtIter(ext, namespace_id)
    IN  [i \in 1..Len(it) |-> it[i].entry]

\* The sequences without repetition of all the elements of a set.
RECURSIVE Orderings(_)
Orderings(S) ==
    IF S = {}
    THEN {<<>>}
    ELSE UNION {{<<e>> \o o : o \in Orderings(S \ {e})} : e \in S}

\* sort_unstable_by(|a, b| b.cmp_newer_than(a)): every arrangement of the
\* entries newest first; entries of equal newness come in any order.
SortNewestFirst(entries) ==
    {o \in Orderings({entries[i] : i \in 1..Len(entries)}) :
        \A i \in 1..Len(o), j \in 1..Len(o) :
            i < j => CmpNewerThan(o[j], o[i]) # Greater}

\* A faulty variant: nothing is cut off.
TruncateNever(newest, max_count) == newest

\* Vec::truncate after `if let Some(max_count)`: a count that does not fit
\* usize is above every length and cuts nothing off either.
Truncate(newest, max_count) ==
    IF max_count = None
    THEN newest
    ELSE SubSeq(newest, 1, Min(Unwrap(max_count), Len(newest)))

\* The try_fold over the newest: Break(total) at the entry, Break(None)
\* when the sum overflows, Continue to the end when the entry is not there.
RECURSIVE SumToEntry(_, _, _, _)
SumToEntry(newest, i, entry, total_size) ==
    IF i > Len(newest)
    THEN [break |-> FALSE, total_size |-> None]
    ELSE IF EntryEq(entry, newest[i])
         THEN [break |-> TRUE, total_size |-> Some(total_size)]
         ELSE LET sum == CheckedAdd(total_size, newest[i].payload_length)
              IN  IF sum # None
                  THEN SumToEntry(newest, i + 1, entry, Unwrap(sum))
                  ELSE [break |-> TRUE, total_size |-> None]

\* The answer of the query for one arrangement of the sorted entries.
NewestIncludes(sorted, max_count, entry, max_size) ==
    LET newest == Truncate(sorted, max_count)
    IN  IF max_size # None
        THEN LET r == SumToEntry(newest, 1, entry, entry.payload_length)
             IN  /\ r.break
                 /\ r.total_size # None
                 /\ Unwrap(r.total_size) <= Unwrap(max_size)
        ELSE \E i \in 1..Len(newest) : EntryEq(entry, newest[i])

\* InMem::newest_includes_within_total_size: the answers the call can give,
\* one for every order the unstable sort may leave equal entries in.
ExtNewestIncludesWithinTotalSize(ext, namespace_id, max_count, entry, max_size) ==
    LET entries == IterEntries(ext, namespace_id)
    IN  IF max_count = None /\ max_size = None
        THEN {\E i \in 1..Len(entries) : EntryEq(entry, entries[i])}
        ELSE {NewestIncludes(sorted, max_count, entry, max_size) :
                 sorted \in SortNewestFirst(entries)}

\* Store::newest_includes_within_total_size
StoreNewestIncludesWithinTotalSize(s, max_count, entry, max_size) ==
    IF s.namespace_id = entry.namespace_id
    THEN ExtNewestIncludesWithinTotalSize(s.ext, s.namespace_id, max_count,
                                          entry, max_size)
    ELSE {FALSE}

\* ------------------------------------- the specification of the budgets
\* (timestamp, payload_digest, payload_length) of the entries put here:
\* lengths that add up, and one length of u64::MAX.
BudgetTuples == {<<1, 1, 1>>, <<2, 2, 1>>, <<2, 3, U64_MAX>>}

BudgetEntries ==
    {[namespace_id |-> n, subspace_id |-> s, path |-> p, timestamp |-> t[1],
      payload_digest |-> t[2], payload_length |-> t[3]] :
        n \in Namespaces, s \in Subspaces, p \in Paths, t \in BudgetTuples}

BudgetAuthorisedEntries ==
    UNION {AuthorisedEntryNew(e, t) : e \in BudgetEntries, t \in Tokens}

\* store[x].put(auth_entry, None): the payload is not at hand yet.
PutWithoutPayload(x, auth_entry) == Put(x, auth_entry, None)

NextBudget ==
    \/ \E x \in Stores, auth_entry \in BudgetAuthorisedEntries :
           PutWithoutPayload(x, auth_entry)
    \/ \E x \in Stores, y \in Stores : Join(x, y)

SpecBudget == Init /\ [][NextBudget]_vars

\* The retained entries of a store that are newer than e.
NewerRetained(s, e) == {f \in RetainedEntries(s) : IsNewerThan(f, e)}

\* The other retained entries of a store that are not older than e.
NotOlderRetained(s, e) ==
    {f \in RetainedEntries(s) \ {e} : CmpNewerThan(f, e) # Less}

\* C17: newest_includes_within_total_size(Some(k), e, None) is false if e
\* is not retained in the store or if at least k retained entries are
\* strictly newer than e, and true if e is retained and fewer than k other
\* retained entries are newer than e or of e's newness; in whatever order
\* the sort leaves entries of equal newness.
C17_CountBudget ==
    \A x \in Stores, e \in BudgetEntries, k \in 0..MaxStored :
        LET answers == StoreNewestIncludesWithinTotalSize(
                           store[x], Some(k), e, None)
            retained == e \in RetainedEntries(store[x])
        IN  /\ answers # {}
            /\ (~retained \/ Cardinality(NewerRetained(store[x], e)) >= k)
                   => answers = {FALSE}
            /\ (retained /\ Cardinality(NotOlderRetained(store[x], e)) < k)
                   => answers = {TRUE}

\* A store retains three entries, two of them of equal newness and one
\* newer: the newest is among the 1 newest, the others are not; all are
\* among the 3 newest; an entry not retained is not.
C17_Witness ==
    \E x \in Stores :
        \E e \in RetainedEntries(store[x]), f \in RetainedEntries(store[x]),
           g \in RetainedEntries(store[x]), h \in BudgetEntries :
            /\ IsNewerThan(g, e)
            /\ e # f /\ CmpNewerThan(e, f) = Equal
            /\ h \notin RetainedEntries(store[x])
            /\ h.namespace_id = store[x].namespace_id
            /\ StoreNewestIncludesWithinTotalSize(store[x], Some(1), g, None)
                   = {TRUE}
            /\ StoreNewestIncludesWithinTotalSize(store[x], Some(1), e, None)
                   = {FALSE}
            /\ StoreNewestIncludesWithinTotalSize(store[x], Some(2), e, None)
                   = {TRUE, FALSE}
            /\ StoreNewestIncludesWithinTotalSize(store[x], Some(3), e, None)
                   = {TRUE}
            /\ StoreNewestIncludesWithinTotalSize(store[x], Some(3), h, None)
                   = {FALSE}

\* The sum of the payload lengths of a set of entries (unbounded).
RECURSIVE SumPayloadLength(_)
SumPayloadLength(entries) ==
    IF entries = {}
    THEN 0
    ELSE LET e == CHOOSE f \in entries : TRUE
         IN  e.payload_length + SumPayloadLength(entries \ {e})

\* C18 as stated: newest_includes_within_total_size(None, e, Some(s)) is
\* true exactly when e is retained in the store and e.payload_length plus
\* the sum of payload_length over the retained entries strictly newer than
\* e is at most s, a sum above u64::MAX counting as above s.
C18_AsStated ==
    \A x \in Stores, e \in BudgetEntries, s \in 0..U64_MAX :
        LET answers == StoreNewestIncludesWithinTotalSize(
                           store[x], None, e, Some(s))
            total == e.payload_length +
                         SumPayloadLength(NewerRetained(store[x], e))
            within == (e \in RetainedEntries(store[x])) /\ (total <= s)
        IN  answers = {within}

\* A store retains two entries of equal newness and payload_length 1, and
\* the query with max_size 1 answers false for one of them in every order.
C18_Witness ==
    \E x \in Stores :
        \E e \in RetainedEntries(store[x]), f \in RetainedEntries(store[x]) :
            /\ e # f
            /\ CmpNewerThan(e, f) = Equal
            /\ NewerRetained(store[x], e) = {}
            /\ e.payload_length = 1
            /\ \A sorted \in SortNewestFirst(
                                 IterEntries(store[x].ext,
                                             store[x].namespace_id)) :
                   \/ ~NewestIncludes(sorted, None, e, Some(1))
                   \/ ~NewestIncludes(sorted, None, f, Some(1))

\* ------------------------------------------------------ Area of interest
\* area::Subspace: Any is None, Id(id) is Some(id).
\* area::Subspace::includes
SubspaceIncludes(self, other) ==
    IF self = None
    THEN TRUE
    ELSE IF other # None THEN Unwrap(self) = Unwrap(other) ELSE FALSE

\* A faulty variant: the path of the area is not consulted.
EntryIncludedInAnyPath(entry, area) ==
    /\ SubspaceIncludes(area.subspace, Some(entry.subspace_id))
    /\ RangeIncludes(area.times, entry.timestamp)

\* impl Includable for Entry: included_in
EntryIncludedIn(entry, area) ==
    /\ SubspaceIncludes(area.subspace, Some(entry.subspace_id))
    /\ IsPrefixOf(area.path, entry.path)
    /\ RangeIncludes(area.times, entry.timestamp)

\* Area::includes, of an Entry
AreaIncludes(area, entry) == EntryIncludedIn(entry, area)

\* Store::newest_entries_include, answered by the newest-entries query
\* with the count alone.
NewestEntriesInclude(s, max_count, entry) ==
    StoreNewestIncludesWithinTotalSize(s, Some(max_count), entry, None)

\* Store::payloads_total_size_of_entry_to_newest compared with max_size,
\* answered by the newest-entries query with the size alone.
PayloadsTotalSizeWithin(s, entry, max_size) ==
    StoreNewestIncludesWithinTotalSize(s, None, entry, Some(max_size))

\* AreaOfInterest::includes: the answers the call can give.  Max is None
\* for Unlimited and Some(n) for Limit(n).  The closures are called from
\* left to right, each only if those before it gave true.
AreaOfInterestIncludes(aoi, entry, s) ==
    LET same_namespace == entry.namespace_id = s.namespace_id
        within_area == AreaIncludes(aoi.area, entry)
        within_max_count ==
            IF aoi.max_count = None
            THEN {TRUE}
            ELSE NewestEntriesInclude(s, Unwrap(aoi.max_count), entry)
        within_max_size ==
            IF aoi.max_size = None
            THEN {TRUE}
            ELSE PayloadsTotalSizeWithin(s, entry, Unwrap(aoi.max_size))
    IN  IF ~(same_namespace /\ within_area)
        THEN {FALSE}
        ELSE {c /\ z : c \in within_max_count, z \in within_max_size}

\* The areas: any subspace or one, three paths, three ranges of time.
Areas ==
    [subspace : {None} \cup {Some(u) : u \in Subspaces},
     path : {<<>>, <<1>>, <<1, 1>>},
     times : {[start |-> 0, end |-> None], [start |-> 2, end |-> None],
              [start |-> 0, end |-> Some(2)]}]

\* Max: Unlimited, or Limit(n) with n a NonZeroU64.
Maxes == {None} \cup {Some(n) : n \in 1..U64_MAX}

AreasOfInterest == [area : Areas, max_count : Maxes, max_size : Maxes]

\* The area of interest of an area with max_count Limit(1) and max_size
\* Unlimited.
NewestOnly(area) ==
    [area |-> area, max_count |-> Some(1), max_size |-> None]

AreaFull ==
    [subspace |-> None, path |-> <<>>, times |-> [start |-> 0, end |-> None]]

\* C20 as stated: includes(entry, store) is true only if the entry is
\* retained in the store (iter yields it) and is of the store's namespace,
\* whatever the area and the budgets, both Unlimited included.
C20_AsStated ==
    \A x \in Stores, aoi \in AreasOfInterest, e \in BudgetEntries :
        TRUE \in AreaOfInterestIncludes(aoi, e, store[x]) =>
            /\ e \in RetainedEntries(store[x])
            /\ e.namespace_id = store[x].namespace_id

\* An entry that was put and has been pruned is included by the full area
\* with both budgets Unlimited, and is not with a count of Limit(3).
C20_Witness ==
    \E x \in Stores :
        \E e \in NewestEntries(store[x]) \ RetainedEntries(store[x]) :
            /\ AreaOfInterestIncludes(
                   [area |-> AreaFull, max_count |-> None, max_size |-> None],
                   e, store[x]) = {TRUE}
            /\ AreaOfInterestIncludes(
                   [area |-> AreaFull, max_count |-> Some(3),
                    max_size |-> None],
                   e, store[x]) = {FALSE}

\* --------------------------------------- the specification of Entry order
\* The arguments of a call that has not been made yet.
Input(args) == [fn |-> "input", args |-> args, ret |-> <<>>]

\* A call that has returned.
Returned(fn, args, ret) == [fn |-> fn, args |-> args, ret |-> ret]

\* The stores are not touched by the calls of pure functions.
StoresIdle == store = [x \in Stores |-> StoreNew(IF x = "C" THEN 2 ELSE 1)]

\* The entries that are compared: every field takes two values or more,
\* and the paths are a path, an extension of it and a sibling.
OrderEntries ==
    [namespace_id : {1, 2}, subspace_id : {1, 2},
     path : {<<1>>, <<1, 1>>, <<2>>}, timestamp : {1, 2},
     payload_digest : {1, 2}, payload_length : {0, 1}]

\* A faulty variant: the timestamp is compared before the path.
EntryPartialCmpTimeFirst(e1, e2) ==
    IF CmpInt(e1.namespace_id, e2.namespace_id) # Equal
    THEN Some(CmpInt(e1.namespace_id, e2.namespace_id))
    ELSE IF CmpInt(e1.subspace_id, e2.subspace_id) # Equal
    THEN Some(CmpInt(e1.subspace_id, e2.subspace_id))
    ELSE IF CmpInt(e1.timestamp, e2.timestamp) # Equal
    THEN Some(CmpInt(e1.timestamp, e2.timestamp))
    ELSE IF CmpComponents(e1.path, e2.path) # Equal
    THEN Some(CmpComponents(e1.path, e2.path))
    ELSE IF CmpInt(e1.payload_digest, e2.payload_digest) # Equal
    THEN Some(CmpInt(e1.payload_digest, e2.payload_digest))
    ELSE Some(CmpInt(e1.payload_length, e2.payload_length))

\* impl PartialOrd for Entry: partial_cmp; the fields are of totally
\* ordered types, whose partial_cmp is Some(cmp).
EntryPartialCmp(e1, e2) ==
    IF CmpInt(e1.namespace_id, e2.namespace_id) # Equal
    THEN Some(CmpInt(e1.namespace_id, e2.namespace_id))
    ELSE IF CmpInt(e1.subspace_id, e2.subspace_id) # Equal
    THEN Some(CmpInt(e1.subspace_id, e2.subspace_id))
    ELSE IF CmpComponents(e1.path, e2.path) # Equal
    THEN Some(CmpComponents(e1.path, e2.path))
    ELSE IF CmpInt(e1.timestamp, e2.timestamp) # Equal
    THEN Some(CmpInt(e1.timestamp, e2.timestamp))
    ELSE IF CmpInt(e1.payload_digest, e2.payload_digest) # Equal
    THEN Some(CmpInt(e1.payload_digest, e2.payload_digest))
    ELSE Some(CmpInt(e1.payload_length, e2.payload_length))

InitEntry ==
    /\ StoresIdle
    /\ call \in {Input(<<e1, e2>>) : e1 \in OrderEntries, e2 \in OrderEntries}

\* e1.cmp(&e2)
CallEntryCmp ==
    /\ call.fn = "input"
    /\ call' = Returned("cmp", call.args,
                        EntryCmp(call.args[1], call.args[2]))
    /\ UNCHANGED store

\* e1.partial_cmp(&e2)
CallEntryPartialCmp ==
    /\ call.fn = "input"
    /\ call' = Returned("partial_cmp", call.args,
                        EntryPartialCmp(call.args[1], call.args[2]))
    /\ UNCHANGED store

\* e1 == e2
CallEntryEq ==
    /\ call.fn = "input"
    /\ call' = Returned("eq", call.args,
                        EntryEq(call.args[1], call.args[2]))
    /\ UNCHANGED store

\* e1.is_newer_than(&e2)
CallIsNewerThan ==
    /\ call.fn = "input"
    /\ call' = Returned("is_newer_than", call.args,
                        IsNewerThan(call.args[1], call.args[2]))
    /\ UNCHANGED store

NextEntry ==
    \/ CallEntryCmp
    \/ CallEntryPartialCmp
    \/ CallEntryEq
    \/ CallIsNewerThan

SpecEntry == InitEntry /\ [][NextEntry]_vars

\* The lexicographic order of two sequences of integers: at the first
\* place where they differ the smaller element decides, and a sequence
\* that is a proper beginning of the other is the smaller.
SeqLexLess(p, q) ==
    \E n \in 1..Len(q) :
        /\ n <= Len(p) + 1
        /\ \A i \in 1..(n - 1) : p[i] = q[i]
        /\ n <= Len(p) => p[n] < q[n]

\* The lexicographic order on (namespace_id, subspace_id, path as its
\* component sequence, timestamp, payload_digest, payload_length).
EntryLexLess(e1, e2) ==
    LET k1 == <<e1.namespace_id, e1.subspace_id, e1.path, e1.timestamp,
                e1.payload_digest, e1.payload_length>>
        k2 == <<e2.namespace_id, e2.subspace_id, e2.path, e2.timestamp,
                e2.payload_digest, e2.payload_length>>
    IN  \E i \in 1..6 :
            /\ \A j \in 1..(i - 1) : k1[j] = k2[j]
            /\ IF i = 3 THEN SeqLexLess(k1[i], k2[i]) ELSE k1[i] < k2[i]

\* The Ordering that the lexicographic order gives two entries.
EntryLexOrdering(e1, e2) ==
    IF EntryLexLess(e1, e2)
    THEN Less
    ELSE IF EntryLexLess(e2, e1) THEN Greater ELSE Equal

\* C21: Ord::cmp and PartialOrd::partial_cmp of two entries give the
\* lexicographic order on (namespace_id, subspace_id, path as component
\* sequence, timestamp, payload_digest, payload_length), and the entries
\* compare Equal exactly when they are ==.
C21_EntryOrderIsLexicographic ==
    LET e1 == call.args[1]
        e2 == call.args[2]
    IN  /\ call.fn = "cmp" =>
              /\ call.ret = EntryLexOrdering(e1, e2)
              /\ (call.ret = Equal) <=> EntryEq(e1, e2)
        /\ call.fn = "partial_cmp" =>
              /\ call.ret = Some(EntryLexOrdering(e1, e2))
              /\ (call.ret = Some(Equal)) <=> EntryEq(e1, e2)
        /\ call.fn = "eq" =>
              (call.ret <=> EntryLexOrdering(e1, e2) = Equal)

\* partial_cmp has compared two entries of which the first has the lesser
\* path (a proper beginning of the other's) and the greater timestamp,
\* and has said Less.
C21_Witness ==
    /\ call.fn = "partial_cmp"
    /\ call.args[1].namespace_id = call.args[2].namespace_id
    /\ call.args[1].subspace_id = call.args[2].subspace_id
    /\ call.args[1].path = <<1>>
    /\ call.args[2].path = <<1, 1>>
    /\ call.args[1].timestamp > call.args[2].timestamp
    /\ call.ret = Some(Less)

\* (timestamp, payload_digest, payload_length) of an entry.
NewnessTriple(e) == <<e.timestamp, e.payload_digest, e.payload_length>>

\* The lexicographic order of two triples of integers.
TripleLexLess(t1, t2) ==
    \E i \in 1..3 :
        /\ \A j \in 1..(i - 1) : t1[j] = t2[j]
        /\ t1[i] < t2[i]

\* C22: e1.is_newer_than(e2) is true exactly when the triple (timestamp,
\* payload_digest, payload_length) of e1 is lexicographically greater than
\* that of e2, whatever the namespace_id, subspace_id and path of the two;
\* the relation is irreflexive, asymmetric and transitive.
C22_NewerThanIsTripleOrder ==
    call.fn = "is_newer_than" =>
        LET e1 == call.args[1]
            e2 == call.args[2]
        IN  /\ call.ret <=>
                   TripleLexLess(NewnessTriple(e2), NewnessTriple(e1))
            /\ \A f1 \in OrderEntries, f2 \in OrderEntries :
                   /\ NewnessTriple(f1) = NewnessTriple(e1)
                   /\ NewnessTriple(f2) = NewnessTriple(e2)
                   => IsNewerThan(f1, f2) = call.ret
            /\ e1 = e2 => ~call.ret
            /\ call.ret => ~IsNewerThan(e2, e1)
            /\ call.ret =>
                   \A e3 \in OrderEntries :
                       IsNewerThan(e2, e3) => IsNewerThan(e1, e3)

\* is_newer_than has said true of two entries of equal timestamp and of
\* different namespace, subspace and path, the first of which has the
\* greater payload_digest and the lesser payload_length.
C22_Witness ==
    /\ call.fn = "is_newer_than"
    /\ call.ret
    /\ call.args[1].timestamp = call.args[2].timestamp
    /\ call.args[1].payload_digest > call.args[2].payload_digest
    /\ call.args[1].payload_length < call.args[2].payload_length
    /\ call.args[1].namespace_id # call.args[2].namespace_id
    /\ call.args[1].subspace_id # call.args[2].subspace_id
    /\ call.args[1].path # call.args[2].path

\* --------------------------------- the specification of AuthorisedEntry
\* AuthorisedEntry::entry
AuthorisedEntryEntry(auth_entry) == auth_entry.entry

\* AuthorisedEntry::auth_token
AuthorisedEntryAuthToken(auth_entry) == auth_entry.auth_token

InitAuth ==
    /\ StoresIdle
    /\ call \in {Input(<<e, t>>) : e \in OrderEntries, t \in Tokens}

\* AuthorisedEntry::new(entry, auth_token)
CallAuthorisedEntryNew ==
    /\ call.fn = "input"
    /\ call' = Returned("new", call.args,
                        AuthorisedEntryNew(call.args[1], call.args[2]))
    /\ UNCHANGED store

\* Params::is_authorised_write(&entry, &auth_token)
CallIsAuthorisedWrite ==
    /\ call.fn = "input"
    /\ call' = Returned("is_authorised_write", call.args,
                        IsAuthorisedWrite(call.args[1], call.args[2]))
    /\ UNCHANGED store

NextAuth ==
    \/ CallAuthorisedEntryNew
    \/ CallIsAuthorisedWrite

SpecAuth == InitAuth /\ [][NextAuth]_vars

\* C23: AuthorisedEntry::new(entry, token) returns Some exactly when
\* is_authorised_write(entry, token) is true, and the entry() and
\* auth_token() of the value returned are the pair that was checked: the
\* value satisfies the predicate.
C23_NewChecksAuthorisation ==
    call.fn = "new" =>
        LET entry == call.args[1]
            token == call.args[2]
        IN  /\ (call.ret # None) <=> IsAuthorisedWrite(entry, token)
            /\ \A auth_entry \in call.ret :
                   /\ AuthorisedEntryEntry(auth_entry) = entry
                   /\ AuthorisedEntryAuthToken(auth_entry) = token
                   /\ IsAuthorisedWrite(AuthorisedEntryEntry(auth_entry),
                                        AuthorisedEntryAuthToken(auth_entry))

\* new has returned Some for an entry under one token, and the other
\* token does not authorise the same entry.
C23_Witness ==
    /\ call.fn = "new"
    /\ call.ret # None
    /\ \E t \in Tokens : AuthorisedEntryNew(call.args[1], t) = None

\* ------------------------------------------ the specification of Range
\* The values of the ordered type of the ranges.
MaxValue == 3
Values == 0..MaxValue

\* Range<T>: a start, and an end that is Closed(end) or Open.
Ranges == [start : Values, end : {None} \cup {Some(v) : v \in Values}]

\* Range::empty, with T::default() = 0
RangeEmpty == [start |-> 0, end |-> Some(0)]

\* Range::is_empty
RangeIsEmpty(self) == \E end \in self.end : end <= self.start

\* Range::includes_range
RangeIncludesRange(self, other) ==
    \/ RangeIsEmpty(other)
    \/ /\ self.start <= other.start
       /\ IF self.end = None THEN TRUE
          ELSE IF other.end = None THEN FALSE
          ELSE Unwrap(other.end) <= Unwrap(self.end)

\* A faulty variant: two closed ranges meet at the end of self.
RangeIntersectionSelfEnd(self, other) ==
    [start |-> Max(self.start, other.start),
     end   |-> IF self.end # None THEN self.end ELSE other.end]

\* Range::intersection
RangeIntersection(self, other) ==
    [start |-> Max(self.start, other.start),
     end   |-> IF self.end # None /\ other.end # None
               THEN Some(Min(Unwrap(self.end), Unwrap(other.end)))
               ELSE IF self.end # None THEN self.end
               ELSE IF other.end # None THEN other.end
               ELSE None]

InitRange ==
    /\ StoresIdle
    /\ call \in {Input(<<a, b, v>>) : a \in Ranges, b \in Ranges, v \in Values}

\* a.intersection(b)
CallRangeIntersection ==
    /\ call.fn = "input"
    /\ call' = Returned("intersection", call.args,
                        RangeIntersection(call.args[1], call.args[2]))
    /\ UNCHANGED store

\* a.includes(v)
CallRangeIncludes ==
    /\ call.fn = "input"
    /\ call' = Returned("includes", call.args,
                        RangeIncludes(call.args[1], call.args[3]))
    /\ UNCHANGED store

\* a.includes_range(b)
CallRangeIncludesRange ==
    /\ call.fn = "input"
    /\ call' = Returned("includes_range", call.args,
                        RangeIncludesRange(call.args[1], call.args[2]))
    /\ UNCHANGED store

NextRange ==
    \/ CallRangeIntersection
    \/ CallRangeIncludes
    \/ CallRangeIncludesRange

SpecRange == InitRange /\ [][NextRange]_vars

\* C24: for all ranges a, b and all values v, a.intersection(b) equals
\* b.intersection(a), and a.intersection(b).includes(v) holds exactly when
\* a.includes(v) and b.includes(v) both hold.
C24_IntersectionOfRanges ==
    call.fn = "intersection" =>
        LET a == call.args[1]
            b == call.args[2]
            v == call.args[3]
        IN  /\ call.ret = RangeIntersection(b, a)
            /\ RangeIncludes(call.ret, v)
                   <=> (RangeIncludes(a, v) /\ RangeIncludes(b, v))

\* Two closed ranges that overlap, neither within the other, have been
\* intersected, and the value is in the first but not in the intersection.
C24_Witness ==
    /\ call.fn = "intersection"
    /\ call.args[1].end # None
    /\ call.args[2].end # None
    /\ call.args[1].start < call.args[2].start
    /\ Unwrap(call.args[1].end) < Unwrap(call.args[2].end)
    /\ ~RangeIsEmpty(call.ret)
    /\ RangeIncludes(call.args[1], call.args[3])
    /\ ~RangeIncludes(call.ret, call.args[3])

\* ------------------------------------------- the specification of Area
\* The time ranges of the areas: open, closed, empty and inverted ones.
MaxTime == 2
TimeRanges ==
    [start : 0..MaxTime, end : {None} \cup {Some(t) : t \in 0..(MaxTime + 1)}]

\* Area<S, P>: subspace Any (None) or Id(s), a path, a range of times.
AllAreas ==
    [subspace : {None} \cup {Some(u) : u \in Subspaces},
     path : {<<>>, <<1>>, <<1, 1>>, <<2>>},
     times : TimeRanges]

\* The entries offered to the areas; only subspace_id, path and timestamp
\* are read by an Area.
AreaEntries ==
    [namespace_id : {1}, subspace_id : Subspaces,
     path : {<<>>, <<1>>, <<1, 1>>, <<2>>}, timestamp : 0..(MaxTime + 1),
     payload_digest : {1}, payload_length : {0}]

\* Area::empty
AreaEmpty == [subspace |-> None, path |-> <<>>, times |-> RangeEmpty]

\* Area::is_empty
AreaIsEmpty(self) == RangeIsEmpty(self.times)

\* impl Includable for Area: included_in
AreaIncludedIn(self, other) ==
    /\ SubspaceIncludes(other.subspace, self.subspace)
    /\ IsPrefixOf(other.path, self.path)
    /\ RangeIncludesRange(other.times, self.times)

\* Area::includes, of an Area
AreaIncludesArea(area, other) == AreaIncludedIn(other, area)

\* The subspace of an intersection: a set holding the one subspace both
\* accept, or no element when two ids differ.
IntersectionSubspace(self, other) ==
    IF self.subspace = None THEN {other.subspace}
    ELSE IF other.subspace = None THEN {self.subspace}
    ELSE IF Unwrap(self.subspace) = Unwrap(other.subspace)
         THEN {self.subspace}
         ELSE {}

\* The path of an intersection: the longer one, when one prefixes the
\* other.
IntersectionPath(self, other) ==
    IF IsPrefixOf(self.path, other.path) THEN {other.path}
    ELSE IF IsPrefixOf(other.path, self.path) THEN {self.path}
    ELSE {}

\* A faulty variant: the path of self is kept whenever one path prefixes
\* the other.
AreaIntersectionSelfPath(self, other) ==
    LET subspace == IntersectionSubspace(self, other)
        path == IF IntersectionPath(self, other) = {} THEN {} ELSE {self.path}
        times == RangeIntersection(self.times, other.times)
    IN  IF subspace = {} THEN AreaEmpty
        ELSE IF path = {} THEN AreaEmpty
        ELSE IF RangeIsEmpty(times) THEN AreaEmpty
        ELSE [subspace |-> Unwrap(subspace), path |-> Unwrap(path),
              times |-> times]

\* A faulty variant: an empty range of times is returned as it is, with
\* the subspace and the path.
AreaIntersectionAsItIs(self, other) ==
    LET subspace == IntersectionSubspace(self, other)
        path == IntersectionPath(self, other)
        times == RangeIntersection(self.times, other.times)
    IN  IF subspace = {} THEN AreaEmpty
        ELSE IF path = {} THEN AreaEmpty
        ELSE [subspace |-> Unwrap(subspace), path |-> Unwrap(path),
              times |-> times]

\* Area::intersection
AreaIntersection(self, other) ==
    LET subspace == IntersectionSubspace(self, other)
        path == IntersectionPath(self, other)
        times == RangeIntersection(self.times, other.times)
    IN  IF subspace = {} THEN AreaEmpty
        ELSE IF path = {} THEN AreaEmpty
        ELSE IF RangeIsEmpty(times) THEN AreaEmpty
        ELSE [subspace |-> Unwrap(subspace), path |-> Unwrap(path),
              times |-> times]

IsAreaArg(x) == "times" \in DOMAIN x

InitArea ==
    /\ StoresIdle
    /\ call \in {Input(<<a, b>>) : a \in AllAreas, b \in AllAreas}
                    \cup {Input(<<a, e>>) : a \in AllAreas, e \in AreaEntries}

\* a.includes(e), of an Entry
CallAreaIncludesEntry ==
    /\ call.fn = "input"
    /\ ~IsAreaArg(call.args[2])
    /\ call' = Returned("includes_entry", call.args,
                        AreaIncludes(call.args[1], call.args[2]))
    /\ UNCHANGED store

\* a.includes(b), of an Area
CallAreaIncludesArea ==
    /\ call.fn = "input"
    /\ IsAreaArg(call.args[2])
    /\ call' = Returned("includes_area", call.args,
                        AreaIncludesArea(call.args[1], call.args[2]))
    /\ UNCHANGED store

\* a.is_empty()
CallAreaIsEmpty ==
    /\ call.fn = "input"
    /\ call' = Returned("is_empty", call.args, AreaIsEmpty(call.args[1]))
    /\ UNCHANGED store

\* a.intersection(b)
CallAreaIntersection ==
    /\ call.fn = "input"
    /\ IsAreaArg(call.args[2])
    /\ call' = Returned("intersection", call.args,
                        AreaIntersection(call.args[1], call.args[2]))
    /\ UNCHANGED store

NextArea ==
    \/ CallAreaIncludesEntry
    \/ CallAreaIncludesArea
    \/ CallAreaIsEmpty
    \/ CallAreaIntersection

SpecArea == InitArea /\ [][NextArea]_vars

\* C25: Area::includes(entry) is true exactly when the area's subspace is
\* Any or equals entry.subspace_id, the area's path is a prefix of
\* entry.path, and the area's times include entry.timestamp; so
\* Area::full() includes every entry and Area::empty() includes none.
C25_AreaIncludesEntry ==
    call.fn = "includes_entry" =>
        LET area == call.args[1]
            entry == call.args[2]
            subspace_ok == \/ area.subspace = None
                           \/ area.subspace = Some(entry.subspace_id)
            path_ok == /\ Len(area.path) <= Len(entry.path)
                       /\ SubSeq(entry.path, 1, Len(area.path)) = area.path
            times_ok == /\ area.times.start <= entry.timestamp
                        /\ \/ area.times.end = None
                           \/ entry.timestamp < Unwrap(area.times.end)
        IN  /\ call.ret = (subspace_ok /\ path_ok /\ times_ok)
            /\ area = AreaFull => call.ret
            /\ area = AreaEmpty => ~call.ret

\* An area of one subspace, a path of one component and a closed range has
\* been asked about an entry it includes, whose path is longer; the full
\* area and the empty area are among the areas asked.
C25_Witness ==
    /\ call.fn = "includes_entry"
    /\ call.ret
    /\ call.args[1].subspace # None
    /\ call.args[1].path = <<1>>
    /\ call.args[2].path = <<1, 1>>
    /\ call.args[1].times.end # None
    /\ AreaFull \in AllAreas
    /\ AreaEmpty \in AllAreas

\* C26 as stated: a.includes(b) is true if and only if every entry that b
\* includes is also included by a; every area includes itself and every
\* area includes any empty area.
C26_AsStated ==
    call.fn = "includes_area" =>
        LET a == call.args[1]
            b == call.args[2]
        IN  /\ call.ret <=> \A e \in AreaEntries :
                                AreaIncludes(b, e) => AreaIncludes(a, e)
            /\ a = b => call.ret
            /\ AreaIsEmpty(b) => call.ret

\* The area of one subspace, with the empty path and every time, has been
\* asked whether it includes Area::empty(), and has answered that it does
\* not.
C26_Witness ==
    /\ call.fn = "includes_area"
    /\ call.args[1] = [subspace |-> Some(1), path |-> <<>>,
                       times |-> [start |-> 0, end |-> None]]
    /\ call.args[2] = AreaEmpty
    /\ ~call.ret

\* C27: for all areas a, b and every entry e, a.intersection(b).includes(e)
\* is true exactly when a.includes(e) and b.includes(e) are both true.
C27_IntersectionIncludesTheCommonEntries ==
    call.fn = "intersection" =>
        \A e \in AreaEntries :
            AreaIncludes(call.ret, e)
                <=> (AreaIncludes(call.args[1], e) /\ AreaIncludes(call.args[2], e))

\* Two areas have been intersected, the first of any subspace with the
\* longer path, the second of one subspace with the shorter: some entry is
\* in both, some entry only in the first and some entry only in the second.
C27_Witness ==
    /\ call.fn = "intersection"
    /\ call.args[1].subspace = None
    /\ call.args[2].subspace # None
    /\ Len(call.args[2].path) < Len(call.args[1].path)
    /\ \E e \in AreaEntries : AreaIncludes(call.ret, e)
    /\ \E e \in AreaEntries :
           AreaIncludes(call.args[1], e) /\ ~AreaIncludes(call.args[2], e)
    /\ \E e \in AreaEntries :
           AreaIncludes(call.args[2], e) /\ ~AreaIncludes(call.args[1], e)

\* C28: Area::intersection is commutative as a value, and whenever the two
\* areas share no entry (their subspaces are different ids, neither path
\* is a prefix of the other, or the intersection of their time ranges is
\* empty) the result is exactly Area::empty().
C28_IntersectionCommutesAndIsCanonical ==
    call.fn = "intersection" =>
        LET a == call.args[1]
            b == call.args[2]
            ids_differ == /\ a.subspace # None
                          /\ b.subspace # None
                          /\ a.subspace # b.subspace
            paths_apart == /\ ~IsPrefixOf(a.path, b.path)
                           /\ ~IsPrefixOf(b.path, a.path)
            no_time == RangeIsEmpty(RangeIntersection(a.times, b.times))
            share_none == ~\E e \in AreaEntries :
                               AreaIncludes(a, e) /\ AreaIncludes(b, e)
        IN  /\ call.ret = AreaIntersection(b, a)
            /\ (ids_differ \/ paths_apart \/ no_time) <=> share_none
            /\ share_none => call.ret = AreaEmpty

\* Two areas of the same subspace and the same path, neither empty, whose
\* time ranges do not meet, have been intersected.
C28_Witness ==
    /\ call.fn = "intersection"
    /\ call.args[1].subspace # None
    /\ call.args[1].subspace = call.args[2].subspace
    /\ call.args[1].path = <<1>>
    /\ call.args[2].path = <<1>>
    /\ ~AreaIsEmpty(call.args[1])
    /\ ~AreaIsEmpty(call.args[2])
    /\ RangeIsEmpty(RangeIntersection(call.args[1].times, call.args[2].times))
    /\ call.ret = AreaEmpty

\* ------------------------------------------- the specification of paths
\* Params with small limits, and Params whose limits are usize::MAX.
SmallParams ==
    [MAX_COMPONENT_COUNT |-> 2, MAX_COMPONENT_LENGTH |-> 2,
     MAX_PATH_LENGTH |-> 3]
WideParams ==
    [MAX_COMPONENT_COUNT |-> USIZE_MAX, MAX_COMPONENT_LENGTH |-> USIZE_MAX,
     MAX_PATH_LENGTH |-> USIZE_MAX]

\* The paths converted under SmallParams, by the sizes of their components.
MaxSmallCount == 4
MaxSmallSize == 3
SmallSizes ==
    UNION {[1..n -> 0..MaxSmallSize] : n \in 0..MaxSmallCount}

\* A path of n components of c_sz bytes each.
Repeat(n, c_sz) == [i \in 1..n |-> c_sz]

\* The paths converted under TestParams: about the count of components,
\* the size of one component, and the total.
TestSizes ==
    {Repeat(n, 1) : n \in (MAX_COMPONENT_COUNT - 1)..(MAX_COMPONENT_COUNT + 2)}
        \cup {<<MAX_COMPONENT_LENGTH>>, <<MAX_COMPONENT_LENGTH + 1>>}
        \cup {Repeat(n, MAX_COMPONENT_LENGTH) : n \in 16..17}

\* The paths converted under WideParams: the second component overflows
\* the total, or does not.
WideSizes == {<<USIZE_MAX>>, <<USIZE_MAX, 0>>, <<USIZE_MAX, 1>>}

InitPath ==
    /\ StoresIdle
    /\ call \in {Input(<<SmallParams, sizes>>) : sizes \in SmallSizes}
                    \cup {Input(<<TestParams, sizes>>) : sizes \in TestSizes}
                    \cup {Input(<<WideParams, sizes>>) : sizes \in WideSizes}

\* Path::from_path_limited::<Params, _, _>(&other)
CallFromPathLimited ==
    /\ call.fn = "input"
    /\ call' = Returned("from_path_limited", call.args,
                        FromPathLimitedSizes(call.args[1], call.args[2]))
    /\ UNCHANGED store

NextPath == CallFromPathLimited

SpecPath == InitPath /\ [][NextPath]_vars

\* The bytes of the first n components.
TotalSize(sizes, n) == SumSizes(sizes, 1, n)

\* C29 as stated: from_path_limited returns Ok exactly when the path has
\* at most MAX_COMPONENT_COUNT components, every component has at most
\* MAX_COMPONENT_LENGTH bytes and the total is at most MAX_PATH_LENGTH;
\* otherwise the error's index is the first component at which a limit is
\* exceeded and its flags are false exactly for the limits exceeded there.
C29_AsStated ==
    call.fn = "from_path_limited" =>
        LET params == call.args[1]
            sizes == call.args[2]
            length_exceeded(i) == sizes[i + 1] > params.MAX_COMPONENT_LENGTH
            count_exceeded(i) == i + 1 > params.MAX_COMPONENT_COUNT
            total_exceeded(i) == TotalSize(sizes, i + 1) > params.MAX_PATH_LENGTH
            exceeded == {i \in 0..(Len(sizes) - 1) :
                             \/ length_exceeded(i)
                             \/ count_exceeded(i)
                             \/ total_exceeded(i)}
            within == /\ Len(sizes) <= params.MAX_COMPONENT_COUNT
                      /\ \A i \in 1..Len(sizes) :
                             sizes[i] <= params.MAX_COMPONENT_LENGTH
                      /\ TotalSize(sizes, Len(sizes)) <= params.MAX_PATH_LENGTH
        IN  /\ call.ret.ok <=> within
            /\ ~call.ret.ok =>
                   /\ call.ret.index \in exceeded
                   /\ \A i \in exceeded : call.ret.index <= i
                   /\ call.ret.within_max_component_length
                          = ~length_exceeded(call.ret.index)
                   /\ call.ret.within_max_component_count
                          = ~count_exceeded(call.ret.index)
                   /\ call.ret.within_max_path_length
                          = ~total_exceeded(call.ret.index)
                   /\ \/ ~call.ret.within_max_component_length
                      \/ ~call.ret.within_max_component_count
                      \/ ~call.ret.within_max_path_length

\* A path of MAX_COMPONENT_COUNT + 1 components of one byte each has been
\* converted under the limits of the store tests, and the result is Ok.
C29_Witness ==
    /\ call.fn = "from_path_limited"
    /\ call.args[1] = TestParams
    /\ call.args[2] = Repeat(MAX_COMPONENT_COUNT + 1, 1)
    /\ call.ret.ok

\* --------------------------------- the specification of copy_to_slice
\* The payloads copied from: n bytes, the byte at offset k being k + 1.
MaxPayloadLen == 3
PayloadBytes(n) == [i \in 1..n |-> i]

\* The callbacks: none, one that reads its chunk, one that writes to its
\* chunk (as <[u8]>::make_ascii_uppercase does).
Callbacks == {"none", "reads", "writes"}

\* What the callback leaves of a byte of its chunk.
CallbackLeaves(callback, byte) ==
    IF callback = "writes" THEN byte + 32 ELSE byte

\* A faulty variant: read gives the first bytes of the payload.
ReadChunkFromStart(bytes, pos, consumed) == SubSeq(bytes, 1, consumed)

\* Payload::read of a well-behaved payload: the bytes at the position.
ReadChunk(bytes, pos, consumed) == SubSeq(bytes, pos + 1, pos + consumed)

\* The frame of a call of copy_to_slice: where it is (pc), the position
\* of the payload, dest, how much of dest is filled (dest minus buf), the
\* chunks the callback was called with, and the result.
Frame(pc, pos, dest, filled, chunks, result) ==
    [pc |-> pc, pos |-> pos, dest |-> dest, filled |-> filled,
     chunks |-> chunks, result |-> result]

\* args: the bytes of the payload, its position, start, dest.len(),
\* callback, restore.
InitPayload ==
    /\ StoresIdle
    /\ call \in {Input(<<PayloadBytes(n), orig_pos, start, dest_len, callback, restore>>) :
                    n \in 0..MaxPayloadLen, orig_pos \in 0..MaxPayloadLen,
                    start \in {None} \cup {Some(x) : x \in 0..U64_MAX},
                    dest_len \in 0..MaxPayloadLen, callback \in Callbacks,
                    restore \in BOOLEAN}
    /\ call.args[2] <= Len(call.args[1])

\* A faulty variant: the length of the payload itself is out of bounds.
CheckInBoundsBelow(x, payload_len) == x < payload_len

\* check_in_bounds of copy_to_slice_with
CheckInBounds(x, payload_len) == x <= payload_len

\* copy_to_slice up to the loop: the position and the length are asked,
\* the range is checked, and the payload is sought to start.
CopyToSliceEnter ==
    /\ call.fn = "input"
    /\ LET bytes == call.args[1]
           orig_pos == call.args[2]
           payload_len == Len(bytes)
           start == IF call.args[3] = None THEN orig_pos
                    ELSE Unwrap(call.args[3])
           dest_len == call.args[4]
           dest == [i \in 1..dest_len |-> 0]
           end == CheckedAdd(start, dest_len)
           Failed(at) == Frame("done", orig_pos, dest, 0, <<>>,
                               <<"OutOfBounds", at>>)
       IN  call' = Returned("copy_to_slice", call.args,
               IF ~CheckInBounds(start, payload_len) THEN Failed(Some(start))
               ELSE IF end = None THEN Failed(None)
               ELSE IF ~CheckInBounds(Unwrap(end), payload_len) THEN Failed(end)
               ELSE Frame("loop", start, dest, 0, <<>>, <<>>))
    /\ UNCHANGED store

\* One turn of the loop: read gives consumed bytes, 1 .. buf.len() of
\* them, into the front of buf, the callback is called on them, and buf
\* becomes the remainder.
CopyToSliceRead(consumed) ==
    /\ call.fn = "copy_to_slice"
    /\ call.ret.pc = "loop"
    /\ call.ret.filled < call.args[4]
    /\ consumed <= call.args[4] - call.ret.filled
    /\ LET bytes == call.args[1]
           callback == call.args[5]
           frame == call.ret
           chunk == ReadChunk(bytes, frame.pos, consumed)
           dest == [i \in 1..Len(frame.dest) |->
                       IF i > frame.filled /\ i <= frame.filled + consumed
                       THEN CallbackLeaves(callback, chunk[i - frame.filled])
                       ELSE frame.dest[i]]
           chunks == IF callback = "none" THEN frame.chunks
                     ELSE Append(frame.chunks, chunk)
       IN  call' = Returned("copy_to_slice", call.args,
                            Frame("loop", frame.pos + consumed, dest,
                                  frame.filled + consumed, chunks, <<>>))
    /\ UNCHANGED store

\* After the loop: buf is empty; the payload is sought back if restore.
CopyToSliceExit ==
    /\ call.fn = "copy_to_slice"
    /\ call.ret.pc = "loop"
    /\ call.ret.filled = call.args[4]
    /\ call' = Returned("copy_to_slice", call.args,
                        Frame("done",
                              IF call.args[6] THEN call.args[2] ELSE call.ret.pos,
                              call.ret.dest, call.ret.filled, call.ret.chunks,
                              <<"Ok">>))
    /\ UNCHANGED store

NextPayload ==
    \/ CopyToSliceEnter
    \/ \E consumed \in 1..MaxPayloadLen : CopyToSliceRead(consumed)
    \/ CopyToSliceExit

SpecPayload == InitPayload /\ [][NextPayload]_vars

\* The chunks of a sequence of chunks, one after the other.
RECURSIVE Flatten(_)
Flatten(chunks) ==
    IF chunks = <<>> THEN <<>> ELSE Head(chunks) \o Flatten(Tail(chunks))

\* copy_to_slice has returned Ok.
CopyToSliceSucceeded ==
    /\ call.fn = "copy_to_slice"
    /\ call.ret.pc = "done"
    /\ call.ret.result = <<"Ok">>

\* The bytes of the payload at start .. start + dest.len().
CopyToSliceRange ==
    LET start == IF call.args[3] = None THEN call.args[2]
                 ELSE Unwrap(call.args[3])
    IN  SubSeq(call.args[1], start + 1, start + call.args[4])

\* C30 as stated: a successful copy_to_slice leaves in dest the payload
\* bytes at start .. start + dest.len(), whatever the callback.
C30_AsStated ==
    CopyToSliceSucceeded => call.ret.dest = CopyToSliceRange

\* C30: a successful copy_to_slice has read into dest the payload bytes at
\* start .. start + dest.len() (start defaulting to the position), has
\* called the callback on successive chunks that are exactly those bytes
\* in order, and leaves in dest what the callback left of them: the bytes
\* themselves when there is no callback or it only reads.  The position is
\* the original one if restore, and start + dest.len() otherwise.
C30_CopiesTheRangeThroughTheCallback ==
    CopyToSliceSucceeded =>
        LET orig_pos == call.args[2]
            start == IF call.args[3] = None THEN orig_pos
                     ELSE Unwrap(call.args[3])
            dest_len == call.args[4]
            callback == call.args[5]
            restore == call.args[6]
        IN  /\ Len(call.ret.dest) = dest_len
            /\ \A i \in 1..dest_len :
                   call.ret.dest[i]
                       = CallbackLeaves(callback, call.args[1][start + i])
            /\ callback # "writes" => call.ret.dest = CopyToSliceRange
            /\ callback # "none" => Flatten(call.ret.chunks) = CopyToSliceRange
            /\ callback = "none" => call.ret.chunks = <<>>
            /\ \A k \in 1..Len(call.ret.chunks) : call.ret.chunks[k] # <<>>
            /\ call.ret.pos = IF restore THEN orig_pos ELSE start + dest_len

\* Two bytes from offset 1 of a payload of three, whose position was 0,
\* have been copied in two chunks through a callback that writes, without
\* restoring.
C30_Witness ==
    /\ CopyToSliceSucceeded
    /\ Len(call.args[1]) = 3
    /\ call.args[2] = 0
    /\ call.args[3] = Some(1)
    /\ call.args[4] = 2
    /\ call.args[5] = "writes"
    /\ ~call.args[6]
    /\ Len(call.ret.chunks) = 2
    /\ call.ret.dest # CopyToSliceRange

\* copy_to_slice has returned OutOfBounds.
CopyToSliceOutOfBounds ==
    /\ call.fn = "copy_to_slice"
    /\ call.ret.pc = "done"
    /\ Len(call.ret.result) = 2

\* start (defaulting to the position) and start + dest.len() of the call.
CopyToSliceStart ==
    IF call.args[3] = None THEN call.args[2] ELSE Unwrap(call.args[3])
CopyToSliceEnd == CopyToSliceStart + call.args[4]

\* C31 as stated: when start or start + dest.len() lies beyond the length
\* of the payload, or the sum overflows u64, copy_to_slice returns
\* OutOfBounds identifying the first offending offset, and the position
\* and dest are unchanged.
C31_AsStated ==
    (/\ call.fn = "copy_to_slice"
     /\ \/ CopyToSliceStart > Len(call.args[1])
        \/ CopyToSliceEnd > Len(call.args[1]))
        => /\ CopyToSliceOutOfBounds
           /\ call.ret.result[2]
                  = Some(IF CopyToSliceStart > Len(call.args[1])
                         THEN CopyToSliceStart ELSE CopyToSliceEnd)
           /\ call.ret.pos = call.args[2]
           /\ call.ret.dest = [i \in 1..call.args[4] |-> 0]

\* C31: copy_to_slice returns OutOfBounds exactly when start or
\* start + dest.len() lies beyond the length of the payload; the error
\* names start when start is beyond, no offset when the sum overflows u64,
\* and the sum otherwise; the position and dest are unchanged and the
\* callback was not called.
C31_OutOfBoundsLeavesAllUnchanged ==
    call.fn = "copy_to_slice" =>
        LET payload_len == Len(call.args[1])
            beyond == \/ CopyToSliceStart > payload_len
                      \/ CopyToSliceEnd > payload_len
        IN  /\ beyond <=> CopyToSliceOutOfBounds
            /\ beyond =>
                   /\ call.ret.result[1] = "OutOfBounds"
                   /\ call.ret.result[2]
                          = IF CopyToSliceStart > payload_len
                            THEN Some(CopyToSliceStart)
                            ELSE IF CopyToSliceEnd > U64_MAX THEN None
                            ELSE Some(CopyToSliceEnd)
                   /\ call.ret.pos = call.args[2]
                   /\ call.ret.dest = [i \in 1..call.args[4] |-> 0]
                   /\ call.ret.filled = 0
                   /\ call.ret.chunks = <<>>

\* A copy of two bytes from offset 2, whose end overflows u64, through a
\* callback, has returned OutOfBounds without an offset.
C31_Witness ==
    /\ CopyToSliceOutOfBounds
    /\ call.args[3] = Some(2)
    /\ call.args[4] = 2
    /\ call.args[5] = "reads"
    /\ call.ret.result = <<"OutOfBounds", None>>

\* ------------------------------------- the specification of Payload::seek
\* i64, scaled as u64 is: I64_MIN .. I64_MAX with I64_MAX = U64_MAX \div 2.
I64_MAX == U64_MAX \div 2
I64_MIN == -(I64_MAX + 1)

\* payload::SeekFrom
SeekFroms ==
    {<<"Start", n>> : n \in 0..U64_MAX} \cup {<<"End", n>> : n \in 0..U64_MAX}
        \cup {<<"Current", n>> : n \in I64_MIN..I64_MAX}

\* The offset from byte 0 that a seek asks for.
SeekTarget(from, pos, len) ==
    IF from[1] = "Start" THEN from[2]
    ELSE IF from[1] = "End" THEN len - from[2]
    ELSE pos + from[2]

\* The outcome of a call on a payload: its position afterwards and the
\* result returned.
Outcome(pos, result) == [pos |-> pos, result |-> result]

\* InMem::seek of the tests: from_start, from_end and from_current give
\* the new position or TooFar, and `?` returns before pos is assigned.
InMemSeek(pos, len, from) ==
    LET target == SeekTarget(from, pos, len)
    IN  IF from[1] = "Current" /\ (target < 0 \/ target > U64_MAX)
        THEN Outcome(pos, <<"Err">>)
        ELSE IF target < 0 \/ target > len
        THEN Outcome(pos, <<"Err">>)
        ELSE Outcome(target, <<"Ok", target>>)

\* InMem::read of the tests: <&[u8] as Read>::read of bytes[pos ..].
InMemRead(pos, len, buf_len) ==
    LET consumed == Min(buf_len, len - pos)
    IN  Outcome(pos + consumed, <<"Ok", consumed>>)

\* sync::Payload::seek for Cursor: payload::SeekFrom is converted to
\* io::SeekFrom (End(n) to End(-n), an error if -n is not an i64) and
\* <Cursor as Seek>::seek is called: Start(n) sets the position to n;
\* End and Current add the offset to the length or to the position, and
\* fail only for a negative or overflowing position.
CursorSeek(pos, len, from) ==
    LET target == SeekTarget(from, pos, len)
    IN  IF from[1] = "End" /\ -from[2] < I64_MIN
        THEN Outcome(pos, <<"Err">>)
        ELSE IF target < 0 \/ target > U64_MAX
        THEN Outcome(pos, <<"Err">>)
        ELSE Outcome(target, <<"Ok", target>>)

\* sync::Payload::read for Cursor: <Cursor as Read>::read gives the bytes
\* from min(position, length) on.
CursorRead(pos, len, buf_len) ==
    LET consumed == Min(buf_len, len - Min(pos, len))
    IN  Outcome(pos + consumed, <<"Ok", consumed>>)

\* args: the implementation and the length of the payload.  ret: the
\* position, and the last call with the position before it and its result.
PayloadState(pos, op, before, result) ==
    [pos |-> pos, op |-> op, before |-> before, result |-> result]

InitSeek ==
    /\ StoresIdle
    /\ call \in {[fn |-> "payload", args |-> <<impl, len>>,
                  ret |-> PayloadState(0, <<>>, 0, <<>>)] :
                    impl \in {"InMem", "Cursor"}, len \in 0..MaxPayloadLen}

\* payload.seek(from)
PayloadSeek(from) ==
    /\ call.fn = "payload"
    /\ LET outcome == IF call.args[1] = "InMem"
                      THEN InMemSeek(call.ret.pos, call.args[2], from)
                      ELSE CursorSeek(call.ret.pos, call.args[2], from)
       IN  call' = [call EXCEPT !.ret =
                        PayloadState(outcome.pos, <<"seek", from>>,
                                     call.ret.pos, outcome.result)]
    /\ UNCHANGED store

\* payload.read(buf), with a buf of buf_len bytes
PayloadRead(buf_len) ==
    /\ call.fn = "payload"
    /\ LET outcome == IF call.args[1] = "InMem"
                      THEN InMemRead(call.ret.pos, call.args[2], buf_len)
                      ELSE CursorRead(call.ret.pos, call.args[2], buf_len)
       IN  call' = [call EXCEPT !.ret =
                        PayloadState(outcome.pos, <<"read", buf_len>>,
                                     call.ret.pos, outcome.result)]
    /\ UNCHANGED store

NextSeek ==
    \/ \E from \in SeekFroms : PayloadSeek(from)
    \/ \E buf_len \in 0..MaxPayloadLen : PayloadRead(buf_len)

SpecSeek == InitSeek /\ [][NextSeek]_vars

\* The last call was a seek whose target is beyond the end or before
\* byte 0.
SeekOutside ==
    /\ call.fn = "payload"
    /\ call.ret.op # <<>>
    /\ call.ret.op[1] = "seek"
    /\ LET target == SeekTarget(call.ret.op[2], call.ret.before, call.args[2])
       IN  target < 0 \/ target > call.args[2]

\* C32 as stated: for the in-memory test payload and for Cursor, a seek
\* whose target lies beyond the end of the payload or before byte 0
\* returns an error and leaves the position unchanged, and so the position
\* stays within 0 ..= len after any sequence of read and seek calls.
C32_AsStated ==
    call.fn = "payload" =>
        /\ SeekOutside => /\ call.ret.result = <<"Err">>
                          /\ call.ret.pos = call.ret.before
        /\ call.ret.pos >= 0
        /\ call.ret.pos <= call.args[2]

\* A Cursor has been sought from its start to beyond its end: the seek
\* returned Ok and the position is beyond the length.
C32_Witness ==
    /\ SeekOutside
    /\ call.args[1] = "Cursor"
    /\ call.ret.op[2][1] = "Start"
    /\ call.ret.result = <<"Ok", call.ret.pos>>
    /\ call.ret.pos > call.args[2]

\* ---------------------------------------------------------------------
\* path_crypto: the encryption and decryption of the components of a path
\* with a sequence of derived keys.
\* ---------------------------------------------------------------------

\* The keys and the components take CryptValues values each; a component
\* stands for its bytes.
CryptValues == 2
Keys == 0..(CryptValues - 1)
Components == 0..(CryptValues - 1)
MaxCryptLen == 3

\* Key::default(), the initial content of the key space of
\* encrypt_components and decrypt_components.
KeyDefault == 0

\* The permutations of the components.
ComponentPermutations ==
    {f \in [Components -> Components] :
        \A a, b \in Components : f[a] = f[b] => a = b}

\* A Scheme: Cryptor::encrypt_component is a permutation of the components
\* under each key, and KDF::derive is any function of a key and a
\* component.
Schemes ==
    [encrypt : [Keys -> ComponentPermutations],
     kdf : [Keys -> [Components -> Keys]]]

\* Cryptor::encrypt_component with a get_dest that gives the space needed.
EncryptComponent(S, key, component) == S.encrypt[key][component]

\* Cryptor::decrypt_component of the Scheme: the inverse of
\* encrypt_component under the same key.
DecryptComponent(S, key, component) ==
    CHOOSE plain \in Components : S.encrypt[key][plain] = component

\* The crypt_component closure that encrypt.rs or decrypt.rs passes to
\* the functions of crypt.rs.
CryptComponent(S, mode, key, component) ==
    IF mode = "encrypt"
    THEN EncryptComponent(S, key, component)
    ELSE DecryptComponent(S, key, component)

\* The paths of components that are encrypted.
RECURSIVE CryptPathsOfLen(_)
CryptPathsOfLen(n) ==
    IF n = 0 THEN {<<>>}
    ELSE {Append(p, c) : p \in CryptPathsOfLen(n - 1), c \in Components}

CryptPaths == UNION {CryptPathsOfLen(n) : n \in 0..MaxCryptLen}

\* crypt_components_with_key_space, the choice of key_i reversed: key_b
\* when alt and key_a otherwise.
KeySpaceKeyIReversed(st) ==
    IF st.key_0 # None THEN Unwrap(st.key_0)
    ELSE IF st.alt THEN st.key_b ELSE st.key_a

\* crypt_components_with_key_space: key_i is key_0 the first time, and
\* key_a when alt and key_b otherwise thereafter.
KeySpaceKeyI(st) ==
    IF st.key_0 # None THEN Unwrap(st.key_0)
    ELSE IF st.alt THEN st.key_a ELSE st.key_b

\* crypt_components_with_key_space: the closure applied to component i of
\* the path, st being the captured key_0, key_a, key_b and alt.  The
\* derived key is written to key_a the first time and when alt is false,
\* and to key_b when alt is true.
RECURSIVE CryptComponentsWithKeySpaceFrom(_, _, _, _, _)
CryptComponentsWithKeySpaceFrom(S, mode, path, i, st) ==
    IF i > Len(path) THEN <<>>
    ELSE LET component_i == path[i]
             key_i == KeySpaceKeyI(st)
             result == CryptComponent(S, mode, key_i, component_i)
             key_i_plus_1 == S.kdf[key_i][component_i]
             into_a == st.key_0 # None \/ ~st.alt
             next == [key_0 |-> None,
                      key_a |-> IF into_a THEN key_i_plus_1 ELSE st.key_a,
                      key_b |-> IF into_a THEN st.key_b ELSE key_i_plus_1,
                      alt |-> ~st.alt]
         IN  <<result>> \o
             CryptComponentsWithKeySpaceFrom(S, mode, path, i + 1, next)

CryptComponentsWithKeySpace(S, mode, path, key_0, key_space) ==
    CryptComponentsWithKeySpaceFrom(S, mode, path, 1,
        [key_0 |-> Some(key_0), key_a |-> key_space[1],
         key_b |-> key_space[2], alt |-> FALSE])

\* EncryptPath::derive_keys_and_size_needed: key_1 .. key_min(N, L), each
\* derived from the key before it and the component before it.
RECURSIVE DeriveKeysFrom(_, _, _, _, _)
DeriveKeysFrom(S, path, i, key_i, L) ==
    IF i > Min(Len(path), L) THEN <<>>
    ELSE LET key_i_plus_1 == S.kdf[key_i][path[i]]
         IN  <<key_i_plus_1>> \o DeriveKeysFrom(S, path, i + 1, key_i_plus_1, L)

DeriveKeys(S, path, key_0, L) == DeriveKeysFrom(S, path, 1, key_0, L)

\* crypt_components_and_save_keys: the components zipped with the L items
\* of keys_dest; the results and the keys assigned.
RECURSIVE CryptComponentsAndSaveKeysFrom(_, _, _, _, _, _)
CryptComponentsAndSaveKeysFrom(S, mode, path, i, key_i, L) ==
    IF i > Min(Len(path), L) THEN <<>>
    ELSE LET component_i == path[i]
             result == CryptComponent(S, mode, key_i, component_i)
             key_i_plus_1 == S.kdf[key_i][component_i]
         IN  <<result>> \o
             CryptComponentsAndSaveKeysFrom(S, mode, path, i + 1, key_i_plus_1, L)

CryptComponentsAndSaveKeys(S, mode, path, key_0, L) ==
    [results |-> CryptComponentsAndSaveKeysFrom(S, mode, path, 1, key_0, L),
     keys_dest |-> DeriveKeys(S, path, key_0, L)]

\* crypt_components_with_keys: the components zipped with the keys.
CryptComponentsWithKeys(S, mode, path, keys) ==
    [i \in 1..Min(Len(path), Len(keys)) |->
        CryptComponent(S, mode, keys[i], path[i])]

\* EncryptPath::encrypt_components: the key space is two default keys.
EncryptComponents(S, path, key_0) ==
    CryptComponentsWithKeySpace(S, "encrypt", path, key_0,
                                <<KeyDefault, KeyDefault>>)

\* EncryptedPath::decrypt_components_with_key_space: the components of
\* the encrypted path go through crypt_components_with_key_space, each
\* decrypted with key_i.
DecryptComponentsWithKeySpace(S, encrypted, key_0, key_space) ==
    CryptComponentsWithKeySpace(S, "decrypt", encrypted, key_0, key_space)

\* EncryptedPath::decrypt_components: the key space is two default keys.
DecryptComponents(S, encrypted, key_0) ==
    DecryptComponentsWithKeySpace(S, encrypted, key_0,
                                  <<KeyDefault, KeyDefault>>)

\* The arguments of a call: the Scheme, the path, key_0, the key space
\* and the number L of items of keys_dest.
InitCrypt ==
    /\ StoresIdle
    /\ call \in {Input(<<S, path, key_0, key_space, L>>) :
                    S \in Schemes, path \in CryptPaths, key_0 \in Keys,
                    key_space \in Keys \X Keys, L \in {0, MaxCryptLen}}

CallEncryptComponents ==
    /\ call.fn = "input"
    /\ call' = Returned("encrypt_components", call.args,
                   EncryptComponents(call.args[1], call.args[2], call.args[3]))
    /\ UNCHANGED store

CallEncryptComponentsWithKeySpace ==
    /\ call.fn = "input"
    /\ call' = Returned("encrypt_components_with_key_space", call.args,
                   CryptComponentsWithKeySpace(call.args[1], "encrypt",
                       call.args[2], call.args[3], call.args[4]))
    /\ UNCHANGED store

CallEncryptComponentsAndSaveKeys ==
    /\ call.fn = "input"
    /\ call' = Returned("encrypt_components_and_save_keys", call.args,
                   CryptComponentsAndSaveKeys(call.args[1], "encrypt",
                       call.args[2], call.args[3], call.args[5]))
    /\ UNCHANGED store

CallDeriveKeys ==
    /\ call.fn = "input"
    /\ call' = Returned("derive_keys", call.args,
                   DeriveKeys(call.args[1], call.args[2], call.args[3],
                              call.args[5]))
    /\ UNCHANGED store

\* encrypt_components_with_keys, given key_0 followed by the keys that
\* derive_keys wrote.
CallEncryptComponentsWithKeys ==
    /\ call.fn = "derive_keys"
    /\ call' = Returned("encrypt_components_with_keys", call.args,
                   CryptComponentsWithKeys(call.args[1], "encrypt",
                       call.args[2], <<call.args[3]>> \o call.ret))
    /\ UNCHANGED store

\* decrypt_components of the EncryptedPath that encrypt_components
\* produced, with the same key_0.
CallDecryptComponents ==
    /\ call.fn = "encrypt_components"
    /\ call' = Returned("decrypt_components", call.args,
                   DecryptComponents(call.args[1], call.ret, call.args[3]))
    /\ UNCHANGED store

NextCrypt ==
    \/ CallEncryptComponents
    \/ CallEncryptComponentsWithKeySpace
    \/ CallEncryptComponentsAndSaveKeys
    \/ CallDeriveKeys
    \/ CallEncryptComponentsWithKeys
    \/ CallDecryptComponents

SpecCrypt == InitCrypt /\ [][NextCrypt]_vars

\* C33 as stated: for any path, any key_0 and any Scheme whose
\* decrypt_component inverts encrypt_component under the same key,
\* decrypt_components with key_0, applied to the path that
\* encrypt_components produced with key_0, yields the original components
\* in order.
C33_AsStated ==
    call.fn = "decrypt_components" => call.ret = call.args[2]

\* A path of two components has been encrypted and decrypted with the same
\* key_0 under a Scheme whose key derivation depends on the component, and
\* the second component came back different.
C33_Witness ==
    /\ call.fn = "decrypt_components"
    /\ Len(call.args[2]) = 2
    /\ call.ret[1] = call.args[2][1]
    /\ call.ret[2] # call.args[2][2]

\* The key sequence of encrypt_components: key_1 is key_0 of the call and
\* key_(i+1) = kdf(key_i, component_i), counting from 1.
RECURSIVE KeySequenceAt(_, _, _, _)
KeySequenceAt(S, path, key_0, i) ==
    IF i = 1 THEN key_0
    ELSE S.kdf[KeySequenceAt(S, path, key_0, i - 1)][path[i - 1]]

\* The first n components, each encrypted with its key of the sequence.
EncryptedWithKeySequence(S, path, key_0, n) ==
    [i \in 1..n |->
        EncryptComponent(S, KeySequenceAt(S, path, key_0, i), path[i])]

\* C35: encrypt_components, encrypt_components_with_key_space,
\* encrypt_components_and_save_keys, and encrypt_components_with_keys fed
\* with key_0 followed by the keys written by derive_keys, all encrypt
\* component i with the key key_i of the sequence key_(i+1) =
\* kdf(key_i, component_i), for as many components as they are given keys
\* for; the keys saved are those of the sequence; and the initial contents
\* of the two slots of key_space affect no output.
C35_AllVariantsUseTheKeySequence ==
    LET S == call.args[1]
        path == call.args[2]
        key_0 == call.args[3]
        L == call.args[5]
        N == Len(path)
    IN  /\ call.fn \in {"encrypt_components",
                        "encrypt_components_with_key_space"} =>
               call.ret = EncryptedWithKeySequence(S, path, key_0, N)
        /\ call.fn = "encrypt_components_and_save_keys" =>
               /\ call.ret.results =
                      EncryptedWithKeySequence(S, path, key_0, Min(N, L))
               /\ call.ret.keys_dest =
                      [i \in 1..Min(N, L) |->
                          KeySequenceAt(S, path, key_0, i + 1)]
        /\ call.fn = "derive_keys" =>
               call.ret = [i \in 1..Min(N, L) |->
                              KeySequenceAt(S, path, key_0, i + 1)]
        /\ call.fn = "encrypt_components_with_keys" =>
               call.ret = EncryptedWithKeySequence(S, path, key_0,
                                                   Min(N, L + 1))

\* encrypt_components_with_key_space has encrypted a path of three
\* components under three keys that are not all the same, the two slots of
\* the key space having started with other keys than the ones derived
\* into them first.
C35_Witness ==
    /\ call.fn = "encrypt_components_with_key_space"
    /\ Len(call.args[2]) = 3
    /\ LET S == call.args[1]
           key_2 == KeySequenceAt(S, call.args[2], call.args[3], 2)
           key_3 == KeySequenceAt(S, call.args[2], call.args[3], 3)
       IN  /\ key_2 # call.args[3]
           /\ key_3 # key_2
           /\ call.args[4][1] # key_2
           /\ call.args[4][2] # key_3
           /\ S.encrypt[0] # S.encrypt[1]

\* ---------------------------------------------------------------------
\* path_crypto::get_dest: the closures that give destination buffers.
\* ---------------------------------------------------------------------

MaxSliceLen == 3
MaxLimit == 2
MaxGetDestCalls == 4

\* A limit: None for unlimited.
Limits == {None} \cup {Some(n) : n \in 0..MaxLimit}

\* check_limit_each.
CheckLimitEach(needed_size, limit_each) ==
    limit_each = None \/ needed_size <= Unwrap(limit_each)

\* check_limit_count: checked_sub(1), and the decrement is stored when
\* it succeeds.
CheckLimitCount(limit_count) ==
    IF limit_count = None THEN [ok |-> TRUE, limit |-> limit_count]
    ELSE IF Unwrap(limit_count) >= 1
    THEN [ok |-> TRUE, limit |-> Some(Unwrap(limit_count) - 1)]
    ELSE [ok |-> FALSE, limit |-> limit_count]

\* check_limit_total: checked_sub(needed_size), and the decrement is
\* stored when it succeeds.
CheckLimitTotal(needed_size, limit_total) ==
    IF limit_total = None THEN [ok |-> TRUE, limit |-> limit_total]
    ELSE IF Unwrap(limit_total) >= needed_size
    THEN [ok |-> TRUE, limit |-> Some(Unwrap(limit_total) - needed_size)]
    ELSE [ok |-> FALSE, limit |-> limit_total]

\* What a closure captures: the limits left and the remainder of the
\* backing slice, as its start in the slice and its length.
Captured(slice_len, limit_count, limit_each, limit_total) ==
    [slice_start |-> 0, slice_len |-> slice_len, limit_count |-> limit_count,
     limit_each |-> limit_each, limit_total |-> limit_total]

\* A space given: its start in the backing slice (0 for a new Vec) and
\* its length.
Space(start, len) == [start |-> start, len |-> len]

\* split_at_mut without moving on: the remainder is the whole slice again.
SplitAtMutWhole(st, needed_size) == st

\* split_at_mut(needed_size) of the remainder: the closure keeps what
\* follows the space.
SplitAtMut(st, needed_size) ==
    [st EXCEPT !.slice_start = @ + needed_size,
               !.slice_len = @ - needed_size]

\* The closure of from_slice_with_limits, called with needed_size.
FromSliceWithLimitsCall(st, needed_size) ==
    LET count == CheckLimitCount(st.limit_count)
        counted == [st EXCEPT !.limit_count = count.limit]
    IN  IF ~count.ok THEN [st |-> st, result |-> None]
        ELSE IF ~CheckLimitEach(needed_size, st.limit_each)
        THEN [st |-> counted, result |-> None]
        ELSE IF needed_size <= counted.slice_len
        THEN [st |-> SplitAtMut(counted, needed_size),
              result |-> Some(Space(counted.slice_start, needed_size))]
        ELSE [st |-> counted, result |-> None]

\* The closure of from_vec_with_limits, called with needed_size; the
\* allocation of the Vec succeeds.
FromVecWithLimitsCall(st, needed_size) ==
    LET count == CheckLimitCount(st.limit_count)
        counted == [st EXCEPT !.limit_count = count.limit]
        total == CheckLimitTotal(needed_size, st.limit_total)
    IN  IF ~count.ok THEN [st |-> st, result |-> None]
        ELSE IF ~CheckLimitEach(needed_size, st.limit_each)
        THEN [st |-> counted, result |-> None]
        ELSE IF ~total.ok THEN [st |-> counted, result |-> None]
        ELSE [st |-> [counted EXCEPT !.limit_total = total.limit],
              result |-> Some(Space(0, needed_size))]

\* A closure and what it has done: what it captures now, the spaces given
\* in call order, the number of calls rejected, and the last call: its
\* needed_size, what the closure captured before it and its result.
GetDestState(st, given, rejected, op, before, result) ==
    [st |-> st, given |-> given, rejected |-> rejected, op |-> op,
     before |-> before, result |-> result]

\* from_slice gives no limits; from_slice_with_limits gives no
\* limit_total; from_vec_with_limits has no slice.
InitGetDest ==
    /\ StoresIdle
    /\ \E maker \in {"from_slice", "from_slice_with_limits",
                     "from_vec_with_limits"},
          slice_len \in 0..MaxSliceLen,
          limit_count \in Limits, limit_each \in Limits, limit_total \in Limits :
        /\ maker = "from_slice" =>
               limit_count = None /\ limit_each = None /\ limit_total = None
        /\ maker = "from_slice_with_limits" => limit_total = None
        /\ maker = "from_vec_with_limits" => slice_len = 0
        /\ LET st == Captured(slice_len, limit_count, limit_each, limit_total)
           IN  call = [fn |-> "get_dest",
                       args |-> <<maker, slice_len, limit_count, limit_each,
                                  limit_total>>,
                       ret |-> GetDestState(st, <<>>, 0, <<>>, st, None)]

\* A call get_dest(needed_size) of the closure.
GetDest(needed_size) ==
    /\ call.fn = "get_dest"
    /\ Len(call.ret.given) + call.ret.rejected < MaxGetDestCalls
    /\ LET outcome == IF call.args[1] = "from_vec_with_limits"
                      THEN FromVecWithLimitsCall(call.ret.st, needed_size)
                      ELSE FromSliceWithLimitsCall(call.ret.st, needed_size)
       IN  call' = [call EXCEPT !.ret =
                GetDestState(outcome.st,
                    IF outcome.result = None THEN call.ret.given
                    ELSE Append(call.ret.given, Unwrap(outcome.result)),
                    IF outcome.result = None THEN call.ret.rejected + 1
                    ELSE call.ret.rejected,
                    <<needed_size>>, call.ret.st, outcome.result)]
    /\ UNCHANGED store

NextGetDest == \E needed_size \in 0..(MaxSliceLen + 1) : GetDest(needed_size)

SpecGetDest == InitGetDest /\ [][NextGetDest]_vars

\* The last call asked for a size within limit_each that fits what was
\* left, of the slice or of the total, before the call.
GetDestWithinSizes ==
    /\ call.ret.op # <<>>
    /\ CheckLimitEach(call.ret.op[1], call.args[4])
    /\ IF call.args[1] = "from_vec_with_limits"
       THEN CheckLimitTotal(call.ret.op[1], call.ret.before.limit_total).ok
       ELSE call.ret.op[1] <= call.ret.before.slice_len

\* The number of buffers given before the last call.
GivenBefore ==
    IF call.ret.result = None THEN Len(call.ret.given)
    ELSE Len(call.ret.given) - 1

\* C34 as stated: a closure made by from_slice_with_limits or
\* from_vec_with_limits with limit_count = n gives at most n buffers in
\* total, and a request rejected because of its size does not use up the
\* count: after any number of rejections, a request that is within
\* limit_each and fits the remaining space or total returns Some as long
\* as fewer than n buffers have been given.
C34_AsStated ==
    (/\ call.fn = "get_dest"
     /\ call.args[1] \in {"from_slice_with_limits", "from_vec_with_limits"}
     /\ call.args[3] # None) =>
        /\ Len(call.ret.given) <= Unwrap(call.args[3])
        /\ (GetDestWithinSizes /\ GivenBefore < Unwrap(call.args[3])) =>
               call.ret.result # None

\* With limit_count = 1, no buffer has been given, one request was
\* rejected, and the next request, within limit_each and fitting the
\* space left, was rejected too.
C34_Witness ==
    /\ call.fn = "get_dest"
    /\ call.args[1] = "from_slice_with_limits"
    /\ call.args[3] = Some(1)
    /\ call.ret.given = <<>>
    /\ call.ret.rejected = 2
    /\ GetDestWithinSizes
    /\ call.ret.result = None

\* The spaces given are consecutive sub-slices from the start of the
\* backing slice, in call order.
RECURSIVE Consecutive(_, _)
Consecutive(given, start) ==
    \/ given = <<>>
    \/ /\ Head(given).start = start
       /\ Consecutive(Tail(given), start + Head(given).len)

\* C36: across any sequence of calls to a closure made by from_slice,
\* every Some(space) has exactly needed_size bytes, the spaces given are
\* consecutive non-overlapping sub-slices of the backing slice in call
\* order, their total size never exceeds the slice length, and a rejected
\* call consumes no space, so that a request is given its space exactly
\* when it fits what is left, whatever was rejected before.
C36_FromSliceGivesConsecutiveSpaces ==
    (call.fn = "get_dest" /\ call.args[1] = "from_slice") =>
        /\ Consecutive(call.ret.given, 0)
        /\ call.ret.st.slice_start + call.ret.st.slice_len = call.args[2]
        /\ call.ret.st.slice_len >= 0
        /\ call.ret.given # <<>> =>
               LET last == call.ret.given[Len(call.ret.given)]
               IN  /\ last.start + last.len = call.ret.st.slice_start
                   /\ last.start + last.len <= call.args[2]
        /\ call.ret.op # <<>> =>
               /\ call.ret.result # None <=>
                      call.ret.op[1] <= call.ret.before.slice_len
               /\ call.ret.result # None =>
                      Unwrap(call.ret.result).len = call.ret.op[1]
               /\ call.ret.result = None => call.ret.st = call.ret.before

\* A closure of from_slice rejected a request, and afterwards gave two
\* spaces of one byte or more, the last one to the last call.
C36_Witness ==
    /\ call.fn = "get_dest"
    /\ call.args[1] = "from_slice"
    /\ call.ret.rejected >= 1
    /\ Len(call.ret.given) >= 2
    /\ \A i \in 1..Len(call.ret.given) : call.ret.given[i].len >= 1
    /\ call.ret.result # None

\* ---------------------------------------------------------------------
\* group::ThreeDimRange: a box of three Ranges.
\* ---------------------------------------------------------------------

\* The paths of the entries and of the ends of the path ranges.
D3Paths == {<<1>>, <<1, 1>>, <<2>>}

\* The place of a path in the order of paths (Ord): the number of the
\* paths that are less.  A Range<Path> compares paths only through Ord.
PathOrd(p) == Cardinality({q \in D3Paths : CmpComponents(q, p) = Less})

\* The ranges of a dimension whose values are 0 .. n.
RangesUpTo(n) == [start : 0..n, end : {None} \cup {Some(v) : v \in 0..n}]

\* ThreeDimRange<SubspaceId, Path>; the subspaces and the times are 0 and
\* 1, the paths are given by their place in the order.
ThreeDimRanges ==
    [subspaces : RangesUpTo(1),
     paths : RangesUpTo(Cardinality(D3Paths) - 1),
     times : RangesUpTo(1)]

\* The entries that the boxes are asked about.
D3Entries ==
    [namespace_id : {1}, subspace_id : 0..1, path : D3Paths,
     timestamp : 0..1, payload_digest : {1}, payload_length : {0}]

\* ThreeDimRange::includes
ThreeDimRangeIncludes(self, entry) ==
    /\ RangeIncludes(self.subspaces, entry.subspace_id)
    /\ RangeIncludes(self.paths, PathOrd(entry.path))
    /\ RangeIncludes(self.times, entry.timestamp)

\* ThreeDimRange::is_empty
ThreeDimRangeIsEmpty(self) ==
    \/ RangeIsEmpty(self.subspaces)
    \/ RangeIsEmpty(self.paths)
    \/ RangeIsEmpty(self.times)

\* A faulty variant: the paths of self are kept as they are.
ThreeDimRangeIntersectionSelfPaths(self, other) ==
    [subspaces |-> RangeIntersection(self.subspaces, other.subspaces),
     paths |-> self.paths,
     times |-> RangeIntersection(self.times, other.times)]

\* ThreeDimRange::intersection
ThreeDimRangeIntersection(self, other) ==
    [subspaces |-> RangeIntersection(self.subspaces, other.subspaces),
     paths |-> RangeIntersection(self.paths, other.paths),
     times |-> RangeIntersection(self.times, other.times)]

InitThreeDim ==
    /\ StoresIdle
    /\ call \in {Input(<<a, b>>) : a \in ThreeDimRanges, b \in ThreeDimRanges}

\* a.intersection(b)
CallThreeDimIntersection ==
    /\ call.fn = "input"
    /\ call' = Returned("intersection", call.args,
                   ThreeDimRangeIntersection(call.args[1], call.args[2]))
    /\ UNCHANGED store

\* a.intersection(b).is_empty()
CallThreeDimIsEmpty ==
    /\ call.fn = "intersection"
    /\ call' = Returned("is_empty", call.args, ThreeDimRangeIsEmpty(call.ret))
    /\ UNCHANGED store

NextThreeDim ==
    \/ CallThreeDimIntersection
    \/ CallThreeDimIsEmpty

SpecThreeDim == InitThreeDim /\ [][NextThreeDim]_vars

\* C37: for all ThreeDimRanges a, b and every entry e,
\* a.intersection(b).includes(e) holds exactly when a.includes(e) and
\* b.includes(e) both hold, includes being the conjunction of the subspace,
\* path and time range tests; the result is a single ThreeDimRange.
C37_IntersectionOfThreeDimRanges ==
    call.fn = "intersection" =>
        /\ call.ret \in ThreeDimRanges
        /\ \A e \in D3Entries :
               ThreeDimRangeIncludes(call.ret, e)
                   <=> (/\ ThreeDimRangeIncludes(call.args[1], e)
                        /\ ThreeDimRangeIncludes(call.args[2], e))

\* Two boxes have been intersected that overlap in every dimension but
\* differ in their paths: an entry is in both and in the intersection, and
\* another entry is in the first box only.
C37_Witness ==
    /\ call.fn = "intersection"
    /\ call.args[1].paths # call.args[2].paths
    /\ call.ret.paths # call.args[1].paths
    /\ \E e \in D3Entries : ThreeDimRangeIncludes(call.ret, e)
    /\ \E e \in D3Entries :
           /\ ThreeDimRangeIncludes(call.args[1], e)
           /\ ~ThreeDimRangeIncludes(call.args[2], e)

\* The retained entries of a store that the query with count k and size
\* max_size answers true for, the sort having arranged the entries of iter
\* as sorted.  The sort is a function of the sequence it is given, and iter
\* yields the entries of an unchanged store in one order: the queries about
\* one state of a store all see the same arrangement.
IncludedAmongNewest(s, sorted, k, max_size) ==
    {e \in RetainedEntries(s) :
        /\ s.namespace_id = e.namespace_id
        /\ NewestIncludes(sorted, Some(k), e, max_size)}

\* The size budgets of a query: none, or a number of bytes.
MaxSizes == {None} \cup {Some(n) : n \in 0..U64_MAX}

\* C38: for any store, any k >= 1 and any max_size, the number of distinct
\* retained entries e for which
\* newest_includes_within_total_size(Some(k), e, max_size) returns true
\* never exceeds k, also when several retained entries tie in newness, in
\* whichever order the sort arranges the entries that tie.
C38_AtMostKIncluded ==
    \A x \in Stores, k \in 1..MaxStored, max_size \in MaxSizes :
        \A sorted \in SortNewestFirst(IterEntries(store[x].ext,
                                                  store[x].namespace_id)) :
            Cardinality(IncludedAmongNewest(store[x], sorted, k, max_size))
                <= k

\* A store retains three entries, two of them of equal newness and one
\* newer: with k = 2 the cut falls between the two that tie, each
\* arrangement includes two entries, and the arrangements differ in which.
C38_Witness ==
    \E x \in Stores :
        LET arrangements == SortNewestFirst(IterEntries(store[x].ext,
                                                        store[x].namespace_id))
        IN  /\ Cardinality(RetainedEntries(store[x])) = 3
            /\ \E e \in RetainedEntries(store[x]),
                  f \in RetainedEntries(store[x]),
                  g \in RetainedEntries(store[x]) :
                   /\ e # f
                   /\ CmpNewerThan(e, f) = Equal
                   /\ IsNewerThan(g, e)
            /\ \A sorted \in arrangements :
                   Cardinality(IncludedAmongNewest(store[x], sorted, 2, None))
                       = 2
            /\ \E s1 \in arrangements, s2 \in arrangements :
                   IncludedAmongNewest(store[x], s1, 2, None)
                       # IncludedAmongNewest(store[x], s2, 2, None)

\* ---------------------------------------------- pruning is never undone
\* Every Entry of the histories of a store: the entries that were put
\* into it, by put or by join.
StoredEntries(s) ==
    UNION {{ToEntry(s.ext[l][i], s.namespace_id, l[1], l[2]) :
               i \in 1..Len(s.ext[l])} : l \in Locations}

\* An entry is observable in a store: iter yields it, or get at its
\* subspace and path answers about it.
Observable(s, e) ==
    \/ e \in RetainedEntries(s)
    \/ /\ e.namespace_id = s.namespace_id
       /\ e \in FoundEntry(s, e.subspace_id, e.path)

\* An entry was put into a store and is not observable there, a newer
\* entry having been put at its path or at a prefix of its path.
Superseded(s, e) ==
    /\ e \in StoredEntries(s)
    /\ ~Observable(s, e)
    /\ \E f \in StoredEntries(s) :
           /\ f.subspace_id = e.subspace_id
           /\ IsPrefixOf(f.path, e.path)
           /\ IsNewerThan(f, e)

MaxMinUnlimitedLeast(self, other) ==
    IF self = None \/ other = None THEN None
    ELSE Some(Min(Unwrap(self), Unwrap(other)))

\* Ord::min of Max, whose derived order puts every Limit before Unlimited.
MaxMin(self, other) ==
    IF self = None THEN other
    ELSE IF other = None THEN self
    ELSE Some(Min(Unwrap(self), Unwrap(other)))

\* AreaOfInterest::intersection
AreaOfInterestIntersection(self, other) ==
    [area |-> AreaIntersection(self.area, other.area),
     max_count |-> MaxMin(self.max_count, other.max_count),
     max_size |-> MaxMin(self.max_size, other.max_size)]

\* AreaOfInterest::includes, the sort of the store's query having
\* arranged the entries of iter as sorted: the sort is a function of the
\* sequence it is given, so the queries about one state of a store all see
\* the same arrangement.
AreaOfInterestIncludesArranged(aoi, entry, s, sorted) ==
    /\ entry.namespace_id = s.namespace_id
    /\ AreaIncludes(aoi.area, entry)
    /\ aoi.max_count # None =>
           NewestIncludes(sorted, aoi.max_count, entry, None)
    /\ aoi.max_size # None =>
           NewestIncludes(sorted, None, entry, aoi.max_size)

\* The areas of interest that are intersected: the full area, the area of
\* subspace 1 below <<1>>, and the area of subspace 2 before time 2, each
\* with a count and a size that are Unlimited, 1 or 2.
InterestAreas ==
    {AreaFull,
     [subspace |-> Some(1), path |-> <<1>>,
      times |-> [start |-> 0, end |-> None]],
     [subspace |-> Some(2), path |-> <<>>,
      times |-> [start |-> 0, end |-> Some(2)]]}

InterestMaxes == {None, Some(1), Some(2)}

InterestAreasOfInterest ==
    [area : InterestAreas, max_count : InterestMaxes,
     max_size : InterestMaxes]

\* One store, built by puts alone.
NextInterest ==
    \E auth_entry \in BudgetAuthorisedEntries :
        PutWithoutPayload("A", auth_entry)

SpecInterest == Init /\ [][NextInterest]_vars

\* The smaller of two budgets, Unlimited counting as the largest.
SmallerMax(m, n) ==
    IF m = None THEN n
    ELSE IF n = None THEN m
    ELSE IF Unwrap(m) <= Unwrap(n) THEN m ELSE n

=============================================================================
